---------------------------- MODULE Spec2Model ----------------------------
(***************************************************************************)
(* A model of the form-validation engine of sat-frontend-framework         *)
(* (src/assets/app/core/Validator.js).                                     *)
(*                                                                         *)
(* One Validator instance works on a small page of form fields.  The       *)
(* state is the instance's own fields (errors, errorMessages), the part of *)
(* the DOM the instance reads and writes (each field's element category,   *)
(* value, checked flag, file list, is-invalid class, message region and    *)
(* attached listeners) and the asyncValidation calls whose predicate has   *)
(* not settled yet.                                                        *)
(*                                                                         *)
(* Field values are sequences of one-character strings, so that            *)
(* parseFloat is computed character by character as the engine does it.    *)
(* Messages are strings.                                                   *)
(***************************************************************************)
EXTENDS Integers, Sequences, FiniteSets, TLC

(***************************************************************************)
(* Bounds of the model.                                                    *)
(***************************************************************************)
\* check invocations made on one Validator instance (validateFields: one per rule)
MaxCalls == 2

(***************************************************************************)
(* The page: two fields.  "a" is the field under test, of any element      *)
(* category; "b" is a companion text input (the other field of equalTo,    *)
(* the other field checked while a predicate is pending).                  *)
(***************************************************************************)
Fields == {"a", "b"}

TextLike == {"text", "email", "password", "number", "select", "textarea"}
Choice == {"radio", "checkbox"}
Kinds == TextLike \cup Choice \cup {"file", "hidden"}
KindsOf(f) == IF f = "a" THEN Kinds ELSE {"text"}

\* the values assigned to "a" when it is neither a radio/checkbox nor a file
\* input; "b" is left empty
Values == { <<>>, <<"1","8">> }
ValuesOf(f) == IF f = "a" THEN Values ELSE { <<>> }
\* the values assigned to "a" when its numeric bounds are checked
NumericValues ==
    { <<>>, <<"1","7">>, <<"1","8">>, <<"9","9">>, <<"9","9",".","5">>,
      <<"a","b","c">>, <<"-","1","8">> }
\* the element categories of "a" when its numeric bounds are checked
NumericKinds == {"text", "number", "textarea"}

\* val() of a radio/checkbox element is its value attribute, "on" by default
OnValue == <<"o","n">>
\* val() of a file input holding a file is the fake path of that file
FakePath == <<"C",":","f">>
\* the one file a file input can hold
TheFile == [name |-> <<"c","v",".","P","D","F">>, type |-> "application/pdf", size |-> 1048577]
FileLists == { <<>>, <<TheFile>> }

\* the message argument of a check: absent ('' is the default) or given
Messages == {"", "Please fix this field."}
\* the (minValue, maxValue) arguments of the numeric bound checks
\* (Validator.js:60)
Bounds == { <<18, 99>> }
\* the fields the numeric bound checks are applied to
BoundFields == {"a"}

Events == {"keyup", "change"}

VARIABLES
    kind,            \* kind[f]: the element category of field f
    val,             \* val[f]: what element.val() returns (Null for null)
    checked,         \* checked[f]: a radio/checkbox of the group is checked
    files,           \* files[f]: element.get(0).files of a file input
    options,         \* options[f]: the option elements of a select, in order
    invalid,         \* invalid[f]: the element carries class is-invalid
    select2Invalid,  \* select2Invalid[f]: its .select2-selection carries it
    html,            \* html[f]: the text of the field's .validation-message
    on,              \* on[f]: the events a clearing listener is attached to
    errors,          \* this.errors
    errorMessages,   \* this.errorMessages
    pending,         \* asyncValidation calls awaiting their predicate
    ncalls,          \* check invocations made on this instance
    last             \* the last operation and what it returned

vars == << kind, val, checked, files, options, invalid, select2Invalid, html,
           on, errors, errorMessages, pending, ncalls, last >>

(***************************************************************************)
(* The state a check reads and writes, as one record.                      *)
(***************************************************************************)
Cur ==
    [ errors |-> errors, errorMessages |-> errorMessages,
      invalid |-> invalid, select2Invalid |-> select2Invalid,
      html |-> html, on |-> on, pending |-> pending ]

Install(st) ==
    /\ errors' = st.errors
    /\ errorMessages' = st.errorMessages
    /\ invalid' = st.invalid
    /\ select2Invalid' = st.select2Invalid
    /\ html' = st.html
    /\ on' = st.on
    /\ pending' = st.pending

\* element.is(selector): the element's category is one the selector names
is(f, selector) == kind[f] \in selector

\* element.attr('id') and '#' + element.attr('id')
attrId(f) == f
hashId(f) == "#" \o f


(***************************************************************************)
(* parseFloat, on the characters the field values are made of: optional    *)
(* leading blanks, an optional sign, digits, an optional fraction.  The    *)
(* longest such prefix is the number; without any digit the result is NaN. *)
(* (No value of the model holds an exponent or the word Infinity.)         *)
(* A number is kept exactly, as num / den with den a power of ten.         *)
(***************************************************************************)
Digits == {"0", "1", "2", "3", "4", "5", "6", "7", "8", "9"}
Blank == {" "}
DigitVal(c) == CHOOSE n \in 0..9 : ToString(n) = c

RECURSIVE SkipWhile(_, _, _)
SkipWhile(s, i, set) ==
    IF i <= Len(s) /\ s[i] \in set THEN SkipWhile(s, i + 1, set) ELSE i

\* the value of the digits s[i], ..., s[j-1]
RECURSIVE DigitsValue(_, _, _)
DigitsValue(s, i, j) ==
    IF j <= i THEN 0 ELSE 10 * DigitsValue(s, i, j - 1) + DigitVal(s[j - 1])

RECURSIVE Pow10(_)
Pow10(n) == IF n = 0 THEN 1 ELSE 10 * Pow10(n - 1)

NaN == [nan |-> TRUE, num |-> 0, den |-> 1]

parseFloat(s) ==
    LET i0 == SkipWhile(s, 1, Blank)
        signed == i0 <= Len(s) /\ s[i0] \in {"+", "-"}
        neg == i0 <= Len(s) /\ s[i0] = "-"
        i1 == IF signed THEN i0 + 1 ELSE i0
        i2 == SkipWhile(s, i1, Digits)
        dot == i2 <= Len(s) /\ s[i2] = "."
        i3 == IF dot THEN SkipWhile(s, i2 + 1, Digits) ELSE i2
        nInt == i2 - i1
        nFrac == IF dot THEN i3 - (i2 + 1) ELSE 0
        mag == DigitsValue(s, i1, i2) * Pow10(nFrac)
               + (IF dot THEN DigitsValue(s, i2 + 1, i3) ELSE 0)
    IN  IF nInt + nFrac = 0 THEN NaN
        ELSE [nan |-> FALSE, num |-> IF neg THEN 0 - mag ELSE mag,
              den |-> Pow10(nFrac)]

\* value < n and value > n as JavaScript compares: false when value is NaN
Less(value, n) == ~value.nan /\ value.num < n * value.den
Greater(value, n) == ~value.nan /\ value.num > n * value.den

(***************************************************************************)
(* Validator.#setErrorMessage(element, message = '')                       *)
(***************************************************************************)
\* A faulty variant: the entry is pushed whatever the message is.
setErrorMessagePushingAlways(st, f, message) ==
    [st EXCEPT !.select2Invalid[f] =
                   IF is(f, {"select"}) THEN message # "" ELSE @,
               !.invalid[f] = (message # ""),
               !.errorMessages =
                   Append(@, [element |-> hashId(f), message |-> message]),
               !.html[f] = message]

\* A faulty variant: the entry is put at the head of the list.
setErrorMessagePrepending(st, f, message) ==
    [st EXCEPT !.select2Invalid[f] =
                   IF is(f, {"select"}) THEN message # "" ELSE @,
               !.invalid[f] = (message # ""),
               !.errorMessages =
                   IF message # ""
                   THEN << [element |-> hashId(f), message |-> message] >> \o @
                   ELSE @,
               !.html[f] = message]

setErrorMessage(st, f, message) ==
    LET sel == is(f, {"select"})
        pushed1 == IF sel /\ message # ""
                   THEN Append(st.errorMessages,
                               [element |-> attrId(f), message |-> message])
                   ELSE st.errorMessages
        pushed2 == IF message # ""
                   THEN Append(pushed1,
                               [element |-> hashId(f), message |-> message])
                   ELSE pushed1
    IN  [st EXCEPT !.select2Invalid[f] = IF sel THEN message # "" ELSE @,
                   !.invalid[f] = (message # ""),
                   !.errorMessages = pushed2,
                   !.html[f] = message]

\* A faulty variant: the default is used whatever the caller passed.
resolveToDefault(message, default) == default

\* message !== '' ? message : <the default of the check>
resolve(message, default) == IF message # "" THEN message ELSE default

\* the failing branch every check shares: this.errors++, the message set and
\* displayed, the clearing listener attached to the given events
fail(st, f, message, events) ==
    LET counted == [st EXCEPT !.errors = @ + 1]
        shown == setErrorMessage(counted, f, message)
    IN  [st |-> [shown EXCEPT !.on[f] = @ \cup events], ret |-> "false"]

\* the passing branch every check shares
\* A faulty variant: a passing check forgets the failures recorded so far.
passResetting(st) ==
    [st |-> [st EXCEPT !.errors = 0, !.errorMessages = << >>], ret |-> "true"]

pass(st) == [st |-> st, ret |-> "true"]

(***************************************************************************)
(* The checks.  Each takes the state and returns the state after it and    *)
(* the value it returns.                                                   *)
(***************************************************************************)
\* A faulty variant: select missing from the selector of the first branch.
requiredWithoutSelect(st, f, message) ==
    LET s0 == setErrorMessage(st, f, "")
    IN  IF is(f, TextLike \ {"select"}) /\ val[f] = <<>>
        THEN fail(s0, f, resolve(message, "Wajib diisi."), {"keyup", "change"})
        ELSE IF is(f, Choice) /\ ~checked[f]
        THEN fail(s0, f, resolve(message, "Wajib dipilih."), {"change"})
        ELSE IF is(f, {"file"}) /\ Len(files[f]) = 0
        THEN fail(s0, f, resolve(message, "Wajib diunggah."), {"change"})
        ELSE pass(s0)

\* A faulty variant: the empty value fails whatever the element category.
requiredOfAnyCategory(st, f, message) ==
    LET s0 == setErrorMessage(st, f, "")
    IN  IF val[f] = <<>>
        THEN fail(s0, f, resolve(message, "Wajib diisi."), {"keyup", "change"})
        ELSE IF is(f, Choice) /\ ~checked[f]
        THEN fail(s0, f, resolve(message, "Wajib dipilih."), {"change"})
        ELSE IF is(f, {"file"}) /\ Len(files[f]) = 0
        THEN fail(s0, f, resolve(message, "Wajib diunggah."), {"change"})
        ELSE pass(s0)

required(st, f, message) ==
    LET s0 == setErrorMessage(st, f, "")
    IN  IF is(f, TextLike) /\ val[f] = <<>>
        THEN fail(s0, f, resolve(message, "Wajib diisi."), {"keyup", "change"})
        ELSE IF is(f, Choice) /\ ~checked[f]
        THEN fail(s0, f, resolve(message, "Wajib dipilih."), {"change"})
        ELSE IF is(f, {"file"}) /\ Len(files[f]) = 0
        THEN fail(s0, f, resolve(message, "Wajib diunggah."), {"change"})
        ELSE pass(s0)

equalTo(st, f, target, message) ==
    LET s0 == setErrorMessage(st, f, "")
    IN  IF val[f] # val[target]
        THEN fail(s0, f, resolve(message, "Input tidak sama."),
                  {"keyup", "change"})
        ELSE pass(s0)

minValue(st, f, min, message) ==
    LET s0 == setErrorMessage(st, f, "")
        value == parseFloat(val[f])
    IN  IF is(f, {"number", "text"}) /\ Less(value, min)
        THEN fail(s0, f,
                  resolve(message, "Nilai minimal adalah " \o ToString(min) \o "."),
                  {"keyup", "change"})
        ELSE pass(s0)

maxValue(st, f, max, message) ==
    LET s0 == setErrorMessage(st, f, "")
        value == parseFloat(val[f])
    IN  IF is(f, {"number", "text"}) /\ Greater(value, max)
        THEN fail(s0, f,
                  resolve(message, "Nilai maksimal adalah " \o ToString(max) \o "."),
                  {"keyup", "change"})
        ELSE pass(s0)

\* A faulty variant: the bounds taken as exclusive.
rangeExclusive(st, f, min, max, message) ==
    LET s0 == setErrorMessage(st, f, "")
        value == parseFloat(val[f])
    IN  IF /\ is(f, {"number", "text"})
           /\ (~Greater(value, min) \/ ~Less(value, max))
           /\ ~value.nan
        THEN fail(s0, f,
                  resolve(message, "Nilai harus antara " \o ToString(min)
                                   \o " dan " \o ToString(max) \o "."),
                  {"keyup", "change"})
        ELSE pass(s0)

range(st, f, min, max, message) ==
    LET s0 == setErrorMessage(st, f, "")
        value == parseFloat(val[f])
    IN  IF is(f, {"number", "text"}) /\ (Less(value, min) \/ Greater(value, max))
        THEN fail(s0, f,
                  resolve(message, "Nilai harus antara " \o ToString(min)
                                   \o " dan " \o ToString(max) \o "."),
                  {"keyup", "change"})
        ELSE pass(s0)

(***************************************************************************)
(* moment(string, format, true): strict parsing in the three formats the   *)
(* date checks default to.  Every token takes exactly its number of        *)
(* digits, every separator is matched literally, the month is 1..12, the   *)
(* day exists in its month, the time is at most 23:59:59, or 24:00:00      *)
(* (the end of the day).  A parsed moment keeps its fields, its day        *)
(* number and its second of the day.                                       *)
(***************************************************************************)
DateFormat == "YYYY-MM-DD"
DatetimeFormat == "YYYY-MM-DD HH:mm:ss"
TimeFormat == "HH:mm:ss"

AllDigits(s, i, j) == \A k \in i..j : s[k] \in Digits

IsLeap(y) == (y % 4 = 0 /\ y % 100 # 0) \/ y % 400 = 0

DaysIn(y, m) ==
    IF m = 2 THEN (IF IsLeap(y) THEN 29 ELSE 28)
    ELSE IF m \in {4, 6, 9, 11} THEN 30 ELSE 31

RECURSIVE DaysBeforeMonth(_, _)
DaysBeforeMonth(y, m) ==
    IF m <= 1 THEN 0 ELSE DaysBeforeMonth(y, m - 1) + DaysIn(y, m - 1)

\* the days from 0000-01-01 to y-m-d
DayNumber(y, m, d) ==
    365 * y + (y + 3) \div 4 - (y + 99) \div 100 + (y + 399) \div 400
    + DaysBeforeMonth(y, m) + (d - 1)

InvalidMoment ==
    [valid |-> FALSE, y |-> 0, m |-> 0, d |-> 0, h |-> 0, mi |-> 0, s |-> 0]

\* the date part: YYYY-MM-DD at the characters 1..10 of str
DatePart(str) ==
    IF /\ Len(str) >= 10
       /\ AllDigits(str, 1, 4) /\ str[5] = "-"
       /\ AllDigits(str, 6, 7) /\ str[8] = "-"
       /\ AllDigits(str, 9, 10)
    THEN LET y == DigitsValue(str, 1, 5)
             m == DigitsValue(str, 6, 8)
             d == DigitsValue(str, 9, 11)
         IN  IF m \in 1..12 /\ d >= 1 /\ d <= DaysIn(y, m)
             THEN [valid |-> TRUE, y |-> y, m |-> m, d |-> d,
                   h |-> 0, mi |-> 0, s |-> 0]
             ELSE InvalidMoment
    ELSE InvalidMoment

\* the time part: a blank and HH:mm:ss at the characters 11..19 of str
TimePart(str, date) ==
    IF /\ date.valid
       /\ Len(str) = 19
       /\ str[11] = " "
       /\ AllDigits(str, 12, 13) /\ str[14] = ":"
       /\ AllDigits(str, 15, 16) /\ str[17] = ":"
       /\ AllDigits(str, 18, 19)
    THEN LET h == DigitsValue(str, 12, 14)
             mi == DigitsValue(str, 15, 17)
             sec == DigitsValue(str, 18, 20)
         IN  IF /\ mi <= 59 /\ sec <= 59
                /\ (h <= 23 \/ (h = 24 /\ mi = 0 /\ sec = 0))
             THEN [date EXCEPT !.h = h, !.mi = mi, !.s = sec]
             ELSE InvalidMoment
    ELSE InvalidMoment

\* a time alone, HH:mm:ss: the day of the moment is the current day, which
\* the model does not hold (no check reads it)
TimeOnly(str) ==
    IF /\ Len(str) = 8
       /\ AllDigits(str, 1, 2) /\ str[3] = ":"
       /\ AllDigits(str, 4, 5) /\ str[6] = ":"
       /\ AllDigits(str, 7, 8)
    THEN LET h == DigitsValue(str, 1, 3)
             mi == DigitsValue(str, 4, 6)
             sec == DigitsValue(str, 7, 9)
         IN  IF /\ mi <= 59 /\ sec <= 59
                /\ (h <= 23 \/ (h = 24 /\ mi = 0 /\ sec = 0))
             THEN [valid |-> TRUE, y |-> 0, m |-> 0, d |-> 0,
                   h |-> h, mi |-> mi, s |-> sec]
             ELSE InvalidMoment
    ELSE InvalidMoment

moment(str, format) ==
    IF format = DateFormat
    THEN (IF Len(str) = 10 THEN DatePart(str) ELSE InvalidMoment)
    ELSE IF format = TimeFormat THEN TimeOnly(str)
    ELSE TimePart(str, DatePart(str))

\* the instant of a valid moment: its day number and second of the day
Instant(a) ==
    LET secs == 3600 * a.h + 60 * a.mi + a.s
    IN  << DayNumber(a.y, a.m, a.d) + secs \div 86400, secs % 86400 >>

Earlier(i, j) == i[1] < j[1] \/ (i[1] = j[1] /\ i[2] < j[2])

\* a.isBefore(b), a.isAfter(b), a.isBetween(b, c, null, '[]'): false when
\* one of the moments is invalid
isBefore(a, b) == a.valid /\ b.valid /\ Earlier(Instant(a), Instant(b))
isAfter(a, b) == a.valid /\ b.valid /\ Earlier(Instant(b), Instant(a))
isBetween(a, b, c) ==
    /\ a.valid /\ b.valid /\ c.valid
    /\ ~Earlier(Instant(a), Instant(b))
    /\ ~Earlier(Instant(c), Instant(a))

Pad2(n) == IF n < 10 THEN "0" \o ToString(n) ELSE ToString(n)
Pad4(n) ==
    IF n < 10 THEN "000" \o ToString(n)
    ELSE IF n < 100 THEN "00" \o ToString(n)
    ELSE IF n < 1000 THEN "0" \o ToString(n) ELSE ToString(n)

\* a.format(format), for the moments of the model (hour below 24)
format(a, fmt) ==
    IF ~a.valid THEN "Invalid date"
    ELSE LET date == Pad4(a.y) \o "-" \o Pad2(a.m) \o "-" \o Pad2(a.d)
         IN  IF fmt = DateFormat THEN date
             ELSE date \o " " \o Pad2(a.h) \o ":" \o Pad2(a.mi)
                  \o ":" \o Pad2(a.s)

\* the branch the six date bound checks share: the element categories they
\* name, the test on the parsed value, the default message
dateCheck(st, f, selector, failing, message, default) ==
    LET s0 == setErrorMessage(st, f, "")
    IN  IF is(f, selector) /\ failing
        THEN fail(s0, f, resolve(message, default), {"keyup", "change"})
        ELSE pass(s0)

DateInputs == {"text", "date"}
DatetimeInputs == {"text", "datetime-local"}

\* A faulty variant: the validity of the parsed value is not tested.
minDateWithoutValidity(st, f, min, fmt, message) ==
    LET dateValue == moment(val[f], fmt)
        m == moment(min, fmt)
    IN  dateCheck(st, f, DateInputs, isBefore(dateValue, m), message,
                  "Tanggal tidak boleh sebelum " \o format(m, fmt) \o ".")

minDate(st, f, min, fmt, message) ==
    LET dateValue == moment(val[f], fmt)
        m == moment(min, fmt)
    IN  dateCheck(st, f, DateInputs,
                  ~dateValue.valid \/ isBefore(dateValue, m), message,
                  "Tanggal tidak boleh sebelum " \o format(m, fmt) \o ".")

maxDate(st, f, max, fmt, message) ==
    LET dateValue == moment(val[f], fmt)
        m == moment(max, fmt)
    IN  dateCheck(st, f, DateInputs,
                  ~dateValue.valid \/ isAfter(dateValue, m), message,
                  "Tanggal tidak boleh setelah " \o format(m, fmt) \o ".")

minDatetime(st, f, min, fmt, message) ==
    LET datetimeValue == moment(val[f], fmt)
        m == moment(min, fmt)
    IN  dateCheck(st, f, DatetimeInputs,
                  ~datetimeValue.valid \/ isBefore(datetimeValue, m), message,
                  "Tanggal dan waktu tidak boleh sebelum "
                  \o format(m, fmt) \o ".")

maxDatetime(st, f, max, fmt, message) ==
    LET datetimeValue == moment(val[f], fmt)
        m == moment(max, fmt)
    IN  dateCheck(st, f, DatetimeInputs,
                  ~datetimeValue.valid \/ isAfter(datetimeValue, m), message,
                  "Tanggal dan waktu tidak boleh setelah "
                  \o format(m, fmt) \o ".")

dateBetween(st, f, startDate, endDate, fmt, message) ==
    LET dateValue == moment(val[f], fmt)
        start == moment(startDate, fmt)
        end == moment(endDate, fmt)
    IN  dateCheck(st, f, DateInputs,
                  ~dateValue.valid \/ ~isBetween(dateValue, start, end),
                  message,
                  "Tanggal harus antara " \o format(start, fmt) \o " dan "
                  \o format(end, fmt) \o ".")

datetimeBetween(st, f, startDatetime, endDatetime, fmt, message) ==
    LET datetimeValue == moment(val[f], fmt)
        start == moment(startDatetime, fmt)
        end == moment(endDatetime, fmt)
    IN  dateCheck(st, f, DatetimeInputs,
                  ~datetimeValue.valid
                  \/ ~isBetween(datetimeValue, start, end),
                  message,
                  "Tanggal dan waktu harus antara " \o format(start, fmt)
                  \o " dan " \o format(end, fmt) \o ".")

Uppers == << "A", "B", "C", "D", "E", "F", "G", "H", "I", "J", "K", "L", "M", "N", "O", "P", "Q", "R", "S", "T", "U", "V", "W", "X", "Y", "Z" >>
Lowers == << "a", "b", "c", "d", "e", "f", "g", "h", "i", "j", "k", "l", "m", "n", "o", "p", "q", "r", "s", "t", "u", "v", "w", "x", "y", "z" >>
Range(seq) == {seq[i] : i \in DOMAIN seq}

\* \w of a regular expression
WordChars == Digits \cup Range(Uppers) \cup Range(Lowers) \cup {"_"}

\* c.toLowerCase()
toLowerCase(c) ==
    IF c \in Range(Uppers)
    THEN Lowers[CHOOSE i \in DOMAIN Uppers : Uppers[i] = c] ELSE c

Letters ==
    {"a", "b", "c", "d", "e", "f", "g", "h", "i", "j", "k", "l", "m", "n", "o",
     "p", "q", "r", "s", "t", "u", "v", "w", "x", "y", "z", "A", "B", "C", "D",
     "E", "F", "G", "H", "I", "J", "K", "L", "M", "N", "O", "P", "Q", "R", "S",
     "T", "U", "V", "W", "X", "Y", "Z"}

\* alphabeticRegex.test(value): letters, ".", "," and blanks only, or empty
alphabeticRegex(value) ==
    \A k \in DOMAIN value : value[k] \in Letters \cup {".", ","} \cup Blank

\* Validator.alphabetic(element, message): fails when the element is not of
\* the categories named, or its value does not match
alphabetic(st, f, message) ==
    LET s0 == setErrorMessage(st, f, "")
    IN  IF ~is(f, {"text", "textarea"}) \/ ~alphabeticRegex(val[f])
        THEN fail(s0, f, resolve(message, "Tidak boleh mengandung angka."),
                  {"keyup", "change"})
        ELSE pass(s0)

\* alphanumericRegex.test(value): letters, digits and blanks only, not empty
alphanumericRegex(value) ==
    /\ value # <<>>
    /\ \A k \in DOMAIN value : value[k] \in Letters \cup Digits \cup Blank

alphanumeric(st, f, message) ==
    LET s0 == setErrorMessage(st, f, "")
    IN  IF is(f, {"text", "textarea"}) /\ ~alphanumericRegex(val[f])
        THEN fail(s0, f,
                  resolve(message, "Hanya boleh mengandung huruf dan angka."),
                  {"keyup", "change"})
        ELSE pass(s0)

\* Validator.fileType(element, allowedTypes, message)
fileType(st, f, allowedTypes, message) ==
    LET s0 == setErrorMessage(st, f, "")
    IN  IF /\ is(f, {"file"})
           /\ Len(files[f]) > 0
           /\ \A i \in DOMAIN allowedTypes : allowedTypes[i] # files[f][1].type
        THEN fail(s0, f, resolve(message, "Format berkas tidak sesuai."),
                  {"change"})
        ELSE pass(s0)

\* /^[0-9]+$/.test(value)
numericRegex(value) == value # <<>> /\ \A k \in DOMAIN value : value[k] \in Digits

\* A faulty variant: a validator that has recorded an error accepts.
numericOnceOnly(st, f, message) ==
    LET s0 == setErrorMessage(st, f, "")
    IN  IF /\ is(f, {"text", "number", "textarea"})
           /\ ~numericRegex(val[f])
           /\ st.errors = 0
        THEN fail(s0, f, resolve(message, "Hanya boleh mengandung angka."),
                  {"keyup", "change"})
        ELSE pass(s0)

numeric(st, f, message) ==
    LET s0 == setErrorMessage(st, f, "")
    IN  IF is(f, {"text", "number", "textarea"}) /\ ~numericRegex(val[f])
        THEN fail(s0, f, resolve(message, "Hanya boleh mengandung angka."),
                  {"keyup", "change"})
        ELSE pass(s0)

\* value.length > length, on the element categories maxLength names
maxLength(st, f, length, message) ==
    LET s0 == setErrorMessage(st, f, "")
    IN  IF is(f, {"text", "email", "password", "textarea"})
           /\ Len(val[f]) > length
        THEN fail(s0, f,
                  resolve(message,
                          "Maksimal " \o ToString(length) \o " karakter."),
                  {"keyup"})
        ELSE pass(s0)

\* /^[^\s@]+@[^\s@]+\.[^\s@]+$/.test(value): no blank, one "@" that is not
\* the first character, and after it a "." with a character on each side
emailRegex(value) ==
    \E i \in 2..Len(value) :
        /\ value[i] = "@"
        /\ \A k \in DOMAIN value : k # i => value[k] \notin Blank \cup {"@"}
        /\ \E j \in (i + 2)..(Len(value) - 1) : value[j] = "."

\* A faulty variant: the field is not cleared before the test.
emailWithoutClearing(st, f, message) ==
    IF is(f, {"text", "email"}) /\ ~emailRegex(val[f])
    THEN fail(st, f, resolve(message, "Email tidak sesuai format"), {"keyup"})
    ELSE pass(st)

email(st, f, message) ==
    LET s0 == setErrorMessage(st, f, "")
    IN  IF is(f, {"text", "email"}) /\ ~emailRegex(val[f])
        THEN fail(s0, f, resolve(message, "Email tidak sesuai format"),
                  {"keyup"})
        ELSE pass(s0)

\* (num / den).toFixed(2): the nearest multiple of 0.01, the larger one of
\* two equally near, written with two decimals
toFixed2(num, den) ==
    LET n == (200 * num + den) \div (2 * den)
    IN  ToString(n \div 100) \o "." \o ToString((n % 100) \div 10)
        \o ToString(n % 10)

MB == 1024 * 1024

fileSize(st, f, maxSize, message) ==
    LET s0 == setErrorMessage(st, f, "")
    IN  IF /\ is(f, {"file"})
           /\ Len(files[f]) > 0
           /\ files[f][1].size > maxSize
        THEN fail(s0, f,
                  resolve(message, "Ukuran file tidak boleh lebih dari "
                                   \o toFixed2(maxSize, MB) \o " MB."),
                  {"change"})
        ELSE pass(s0)

(***************************************************************************)
(* Validator.requiredIf(element, otherElement, expectedValue, message):    *)
(* whatever the category of the two elements.                              *)
(***************************************************************************)
requiredIf(st, f, other, expectedValue, message) ==
    LET s0 == setErrorMessage(st, f, "")
    IN  IF val[other] = expectedValue /\ val[f] = <<>>
        THEN fail(s0, f, resolve(message, "Field ini wajib diisi."),
                  {"keyup", "change"})
        ELSE pass(s0)

\* validValues.includes(value), value being the string val() returns: the
\* strings 'true', 'false', '1' and '0'
validValues ==
    { <<"t","r","u","e">>, <<"f","a","l","s","e">>, <<"1">>, <<"0">> }

\* Validator.boolean(element, message): whatever the element's category
boolean(st, f, message) ==
    LET s0 == setErrorMessage(st, f, "")
    IN  IF val[f] \notin validValues
        THEN fail(s0, f, resolve(message, "Nilai harus berupa boolean."),
                  {"change"})
        ELSE pass(s0)

\* value.length < length, on the element categories minLength names
minLength(st, f, length, message) ==
    LET s0 == setErrorMessage(st, f, "")
    IN  IF is(f, {"text", "email", "password", "textarea"})
           /\ Len(val[f]) < length
        THEN fail(s0, f,
                  resolve(message,
                          "Minimal " \o ToString(length) \o " karakter."),
                  {"keyup"})
        ELSE pass(s0)

\* the regex of the doc of pattern (Validator.js:406): 3 to 15 characters,
\* each a lowercase letter, a digit, "_" or "-"
UsernameRegex == "^[a-z0-9_-]{3,15}$"
usernameChars == Range(Lowers) \cup Digits \cup {"_", "-"}

\* regex.test(value), for the regex of the model
regexTest(regex, value) ==
    /\ regex = UsernameRegex
    /\ Len(value) \in 3..15
    /\ \A k \in DOMAIN value : value[k] \in usernameChars

\* Validator.pattern(element, regex, message)
pattern(st, f, regex, message) ==
    LET s0 == setErrorMessage(st, f, "")
    IN  IF is(f, {"text", "textarea"}) /\ ~regexTest(regex, val[f])
        THEN fail(s0, f, resolve(message, "Format input tidak sesuai."),
                  {"keyup", "change"})
        ELSE pass(s0)

\* name.split('.').pop(): the characters after the last "." of the name (the
\* whole name when it has none)
RECURSIVE lastPart(_)
lastPart(name) ==
    IF \E k \in DOMAIN name : name[k] = "."
    THEN lastPart(Tail(name)) ELSE name

\* chars.toLowerCase(), as a string
RECURSIVE lowerCased(_)
lowerCased(chars) ==
    IF chars = <<>> THEN ""
    ELSE toLowerCase(Head(chars)) \o lowerCased(Tail(chars))

\* Validator.fileExtension(element, allowedExtensions, message)
fileExtension(st, f, allowedExtensions, message) ==
    LET s0 == setErrorMessage(st, f, "")
    IN  IF /\ is(f, {"file"})
           /\ Len(files[f]) > 0
           /\ \A i \in DOMAIN allowedExtensions :
                 allowedExtensions[i] # lowerCased(lastPart(files[f][1].name))
        THEN fail(s0, f, resolve(message, "Ekstensi file tidak diizinkan."),
                  {"change"})
        ELSE pass(s0)

\* Validator.date, datetime and time (element, format, message): the value
\* parses strictly in the format
date(st, f, fmt, message) ==
    LET s0 == setErrorMessage(st, f, "")
    IN  IF is(f, {"text", "date"}) /\ ~moment(val[f], fmt).valid
        THEN fail(s0, f,
                  resolve(message,
                          "Tanggal tidak sesuai format " \o fmt \o "."),
                  {"keyup", "change"})
        ELSE pass(s0)

datetime(st, f, fmt, message) ==
    LET s0 == setErrorMessage(st, f, "")
    IN  IF is(f, {"text", "datetime-local"}) /\ ~moment(val[f], fmt).valid
        THEN fail(s0, f,
                  resolve(message,
                          "Format tanggal dan waktu tidak sesuai ("
                          \o fmt \o ")."),
                  {"keyup", "change"})
        ELSE pass(s0)

time(st, f, fmt, message) ==
    LET s0 == setErrorMessage(st, f, "")
    IN  IF is(f, {"text", "time"}) /\ ~moment(val[f], fmt).valid
        THEN fail(s0, f,
                  resolve(message,
                          "Format waktu tidak sesuai (" \o fmt \o ")."),
                  {"keyup", "change"})
        ELSE pass(s0)

\* the word characters and "-"
wordChars == WordChars \cup {"-"}

\* the labels of a host from s[i] on: one or more word characters, then
\* either a "." and more labels, or the end of the host.  The result is the
\* place after the host when it has count labels or more, 0 otherwise.
RECURSIVE host(_, _, _)
host(s, i, count) ==
    LET j == SkipWhile(s, i, wordChars)
    IN  IF j = i THEN 0
        ELSE IF j <= Len(s) /\ s[j] = "." THEN host(s, j + 1, count + 1)
        ELSE IF count >= 1 THEN j ELSE 0

\* the path segments from s[i] on: a "/" and word characters, repeated up to
\* the end of the string
RECURSIVE path(_, _)
path(s, i) ==
    IF i > Len(s) THEN TRUE
    ELSE s[i] = "/" /\ path(s, SkipWhile(s, i + 1, wordChars))

startsWith(s, prefix) ==
    Len(s) >= Len(prefix) /\ SubSeq(s, 1, Len(prefix)) = prefix

\* urlRegex.test(value): an optional http:// or https://, two or more
\* labels of word characters joined by ".", then path segments
urlRegex(value) ==
    LET http == <<"h","t","t","p",":","/","/">>
        https == <<"h","t","t","p","s",":","/","/">>
        i0 == IF startsWith(value, http) THEN Len(http) + 1
              ELSE IF startsWith(value, https) THEN Len(https) + 1
              ELSE 1
        i1 == host(value, i0, 0)
    IN  i1 # 0 /\ path(value, i1)

url(st, f, message) ==
    LET s0 == setErrorMessage(st, f, "")
    IN  IF is(f, {"text", "url"}) /\ ~urlRegex(val[f])
        THEN fail(s0, f, resolve(message, "URL tidak sesuai format."),
                  {"keyup", "change"})
        ELSE pass(s0)

\* phoneRegex.test(value): digits, "+", blanks, "(", ")" and "-" only, not
\* empty
phoneRegex(value) ==
    /\ value # <<>>
    /\ \A k \in DOMAIN value :
          value[k] \in Digits \cup Blank \cup {"+", "(", ")", "-"}

phoneNumber(st, f, message) ==
    LET s0 == setErrorMessage(st, f, "")
    IN  IF is(f, {"text", "tel"}) /\ ~phoneRegex(val[f])
        THEN fail(s0, f, resolve(message, "Nomor telepon tidak valid."),
                  {"keyup", "change"})
        ELSE pass(s0)

(***************************************************************************)
(* Validator.custom(element, validatorFunction, message).  The caller's    *)
(* predicates of the model: isEven, the example of the method's doc        *)
(* (value => parseInt(value) % 2 === 0), and a predicate that throws.      *)
(* custom has no try/catch: what the predicate throws leaves custom as an  *)
(* exception, after the field was cleared.                                 *)
(***************************************************************************)
Predicates == {"isEven", "throwing"}

\* parseInt(value): leading blanks, an optional sign, then decimal digits
parseInt(s) ==
    LET i0 == SkipWhile(s, 1, Blank)
        signed == i0 <= Len(s) /\ s[i0] \in {"+", "-"}
        i1 == IF signed THEN i0 + 1 ELSE i0
        i2 == SkipWhile(s, i1, Digits)
    IN  IF i2 = i1 THEN NaN
        ELSE [nan |-> FALSE,
              num |-> IF s[i0] = "-" THEN 0 - DigitsValue(s, i1, i2)
                      ELSE DigitsValue(s, i1, i2),
              den |-> 1]

\* validatorFunction(value): "true", "false" (a falsy value) or "throw"
test(predicate, value) ==
    IF predicate = "throwing" THEN "throw"
    ELSE LET n == parseInt(value)
         IN  IF ~n.nan /\ n.num % 2 = 0 THEN "true" ELSE "false"

\* a check left by an exception: the state it leaves behind
raise(st) == [st |-> st, ret |-> "throw"]

custom(st, f, predicate, message) ==
    LET s0 == setErrorMessage(st, f, "")
        verdict == test(predicate, val[f])
    IN  IF verdict = "throw" THEN raise(s0)
        ELSE IF verdict = "false"
        THEN fail(s0, f, resolve(message, "Input tidak valid."),
                  {"keyup", "change"})
        ELSE pass(s0)

(***************************************************************************)
(* Validator.asyncValidation, in its two synchronous stretches: up to the  *)
(* await (the field cleared, the predicate called with the field's value), *)
(* and from the settling of the awaited value to the return.  The caller's *)
(* predicates of the model: one that returns (a promise, or a plain        *)
(* value), so that the method is suspended at the await, and one that      *)
(* throws when it is called, so that the catch runs before the call        *)
(* returns its promise.  outcome is how the awaited value settled: "true", *)
(* "false" (any falsy value) or "reject" (the predicate's promise          *)
(* rejected).                                                              *)
(***************************************************************************)
AsyncPredicates == {"returning", "throwing"}
Outcomes == {"true", "false", "reject"}

GenericMessage == "Terjadi kesalahan saat validasi."

\* the calls are told apart by the order they were made in: a call takes
\* the first number no suspended call carries
callId(calls) ==
    CHOOSE i \in 1..(Cardinality(calls) + 1) :
        /\ \A call \in calls : call.id # i
        /\ \A j \in 1..(i - 1) : \E call \in calls : call.id = j

\* the call asyncValidation(element, predicate, message) suspended at
\* await predicate(value)
Call(calls, f, message) ==
    [id |-> callId(calls), f |-> f, value |-> val[f], message |-> message]

\* A faulty variant: the predicate's failure is recorded before the call
\* returns its promise.
asyncValidationSettlingAtOnce(st, f, predicate, message) ==
    [st |-> fail(setErrorMessage(st, f, ""), f,
                 resolve(message, "Input tidak valid."),
                 {"keyup", "change"}).st,
     ret |-> "promise"]

asyncValidation(st, f, predicate, message) ==
    LET s0 == setErrorMessage(st, f, "")
    IN  IF predicate = "throwing"
        THEN [st |-> fail(s0, f, GenericMessage, {}).st, ret |-> "promise"]
        ELSE [st |-> [s0 EXCEPT !.pending =
                                   @ \cup {Call(st.pending, f, message)}],
              ret |-> "promise"]

\* the promise of asyncValidation resolves to r.ret
resolved(r) == [st |-> r.st, ret |-> r.ret, rets |-> <<>>, threw |-> FALSE]

\* A faulty variant: no catch, the rejection reaches the caller.
asyncSettleUncaught(st, call, outcome) ==
    LET s0 == [st EXCEPT !.pending = @ \ {call}]
    IN  IF outcome = "true" THEN resolved(pass(s0))
        ELSE IF outcome = "false"
        THEN resolved(fail(s0, call.f,
                           resolve(call.message, "Input tidak valid."),
                           {"keyup", "change"}))
        ELSE [st |-> s0, ret |-> "undefined", rets |-> <<>>, threw |-> TRUE]

asyncSettle(st, call, outcome) ==
    LET s0 == [st EXCEPT !.pending = @ \ {call}]
    IN  IF outcome = "true" THEN resolved(pass(s0))
        ELSE IF outcome = "false"
        THEN resolved(fail(s0, call.f,
                           resolve(call.message, "Input tidak valid."),
                           {"keyup", "change"}))
        ELSE resolved(fail(s0, call.f, GenericMessage, {}))

(***************************************************************************)
(* Validator.throwErrorMessage(message): whether it throws, and what it    *)
(* logs to the console before throwing.                                    *)
(***************************************************************************)
DefaultThrowMessage == "Masih ada form yang belum diisi atau salah."

\* A faulty variant: the threshold off by one (this.errors > 1).
throwErrorMessageAboveOne(st, message) ==
    IF st.errors > 1
    THEN [st |-> st, threw |-> TRUE, error |-> message,
          logged |-> st.errorMessages]
    ELSE [st |-> st, threw |-> FALSE, error |-> "", logged |-> <<>>]

throwErrorMessage(st, message) ==
    IF st.errors >= 1
    THEN [st |-> st, threw |-> TRUE, error |-> message,
          logged |-> st.errorMessages]
    ELSE [st |-> st, threw |-> FALSE, error |-> "", logged |-> <<>>]

(***************************************************************************)
(* Validator.validateFields(validations).  A rule names the method and    *)
(* its arguments: the element f, the other element (equalTo), the bounds   *)
(* (minValue, maxValue, range) and the message.                            *)
(***************************************************************************)
Rule(method, f, other, min, max, message) ==
    [method |-> method, f |-> f, other |-> other, min |-> min, max |-> max,
     message |-> message, predicate |-> "", start |-> <<>>, end |-> <<>>,
     format |-> ""]

\* a rule of a date bound check: the element, the bound(s), the format and
\* the message
DateRule(method, f, start, end, fmt, message) ==
    [Rule(method, f, "", 0, 0, message)
        EXCEPT !.start = start, !.end = end, !.format = fmt]

\* a rule of custom: the element, the caller's predicate and the message
CustomRule(f, predicate, message) ==
    [Rule("custom", f, "", 0, 0, message) EXCEPT !.predicate = predicate]

\* a rule of asyncValidation: the element, the caller's predicate and the
\* message
AsyncRule(f, predicate, message) ==
    [Rule("asyncValidation", f, "", 0, 0, message)
        EXCEPT !.predicate = predicate]

Rules ==
    { Rule("required", f, "", 0, 0, m) : f \in Fields, m \in Messages }
    \cup { Rule("equalTo", f, g, 0, 0, m) :
             f \in Fields, g \in Fields, m \in Messages }
    \cup { Rule("minValue", f, "", b[1], 0, m) :
             f \in BoundFields, b \in Bounds, m \in Messages }
    \cup { Rule("maxValue", f, "", 0, b[2], m) :
             f \in BoundFields, b \in Bounds, m \in Messages }
    \cup { Rule("range", f, "", b[1], b[2], m) :
             f \in BoundFields, b \in Bounds, m \in Messages }
    \cup { AsyncRule(f, p, m) :
             f \in Fields, p \in AsyncPredicates, m \in Messages }

invoke(st, rule) ==
    CASE rule.method = "required" -> required(st, rule.f, rule.message)
      [] rule.method = "equalTo" ->
            equalTo(st, rule.f, rule.other, rule.message)
      [] rule.method = "minValue" ->
            minValue(st, rule.f, rule.min, rule.message)
      [] rule.method = "maxValue" ->
            maxValue(st, rule.f, rule.max, rule.message)
      [] rule.method = "range" ->
            range(st, rule.f, rule.min, rule.max, rule.message)
      [] rule.method = "asyncValidation" ->
            asyncValidation(st, rule.f, rule.predicate, rule.message)
      [] rule.method = "custom" ->
            custom(st, rule.f, rule.predicate, rule.message)
      [] rule.method = "fileSize" ->
            fileSize(st, rule.f, rule.max, rule.message)
      [] rule.method = "maxLength" ->
            maxLength(st, rule.f, rule.max, rule.message)
      [] rule.method = "email" -> email(st, rule.f, rule.message)
      [] rule.method = "numeric" -> numeric(st, rule.f, rule.message)
      [] rule.method = "alphabetic" -> alphabetic(st, rule.f, rule.message)
      [] rule.method = "alphanumeric" ->
            alphanumeric(st, rule.f, rule.message)
      [] rule.method = "fileType" ->
            fileType(st, rule.f, rule.start, rule.message)
      [] rule.method = "requiredIf" ->
            requiredIf(st, rule.f, rule.other, rule.start, rule.message)
      [] rule.method = "boolean" -> boolean(st, rule.f, rule.message)
      [] rule.method = "minLength" ->
            minLength(st, rule.f, rule.min, rule.message)
      [] rule.method = "pattern" ->
            pattern(st, rule.f, rule.format, rule.message)
      [] rule.method = "fileExtension" ->
            fileExtension(st, rule.f, rule.start, rule.message)
      [] rule.method = "date" -> date(st, rule.f, rule.format, rule.message)
      [] rule.method = "datetime" ->
            datetime(st, rule.f, rule.format, rule.message)
      [] rule.method = "time" -> time(st, rule.f, rule.format, rule.message)
      [] rule.method = "url" -> url(st, rule.f, rule.message)
      [] rule.method = "phoneNumber" ->
            phoneNumber(st, rule.f, rule.message)
      [] rule.method = "minDate" ->
            minDate(st, rule.f, rule.start, rule.format, rule.message)
      [] rule.method = "maxDate" ->
            maxDate(st, rule.f, rule.end, rule.format, rule.message)
      [] rule.method = "minDatetime" ->
            minDatetime(st, rule.f, rule.start, rule.format, rule.message)
      [] rule.method = "maxDatetime" ->
            maxDatetime(st, rule.f, rule.end, rule.format, rule.message)
      [] rule.method = "dateBetween" ->
            dateBetween(st, rule.f, rule.start, rule.end, rule.format,
                        rule.message)
      [] rule.method = "datetimeBetween" ->
            datetimeBetween(st, rule.f, rule.start, rule.end, rule.format,
                            rule.message)

\* A faulty variant: the loop stops at the first rule that returns false.
RECURSIVE forEachStopping(_, _)
forEachStopping(st, validations) ==
    IF validations = <<>> THEN [st |-> st, rets |-> <<>>]
    ELSE LET first == invoke(st, Head(validations))
             rest == forEachStopping(first.st, Tail(validations))
         IN  IF first.ret \in {"false", "throw"}
             THEN [st |-> first.st, rets |-> <<first.ret>>]
             ELSE [st |-> rest.st, rets |-> <<first.ret>> \o rest.rets]

\* validations.forEach(...): the state after the rules and what each returned
RECURSIVE forEach(_, _)
forEach(st, validations) ==
    IF validations = <<>> THEN [st |-> st, rets |-> <<>>]
    ELSE LET first == invoke(st, Head(validations))
             rest == forEach(first.st, Tail(validations))
         IN  IF first.ret = "throw"
             THEN [st |-> first.st, rets |-> <<first.ret>>]
             ELSE [st |-> rest.st, rets |-> <<first.ret>> \o rest.rets]

\* the Error a throwing predicate throws
PredicateError == "predicate failed"

\* this.throwErrorMessage() after the rules ran; not reached when a rule
\* left the loop by an exception
thenThrow(ran) ==
    LET thrown == throwErrorMessage(ran.st, DefaultThrowMessage)
    IN  IF ran.rets # <<>> /\ ran.rets[Len(ran.rets)] = "throw"
        THEN [st |-> ran.st, rets |-> ran.rets, threw |-> TRUE,
              error |-> PredicateError, logged |-> <<>>]
        ELSE [st |-> thrown.st, rets |-> ran.rets, threw |-> thrown.threw,
              error |-> thrown.error, logged |-> thrown.logged]

validateFields(st, validations) == thenThrow(forEach(st, validations))

(***************************************************************************)
(* SAT.Format.ToDate and SAT.Parse.ToDate (src/assets/app/core/SAT.js), on *)
(* strings kept as sequences of one-character strings.                     *)
(***************************************************************************)
\* the decimal digits of a natural number, as characters
RECURSIVE Chars(_)
Chars(n) ==
    IF n < 10 THEN << ToString(n) >>
    ELSE Chars(n \div 10) \o << ToString(n % 10) >>

\* String(parseInt(str))
parseIntString(str) ==
    LET n == parseInt(str)
    IN  IF n.nan THEN << "N", "a", "N" >>
        ELSE IF n.num < 0 THEN << "-" >> \o Chars(0 - n.num)
        ELSE Chars(n.num)

Undefined == << "u", "n", "d", "e", "f", "i", "n", "e", "d" >>

\* str.split(sep): the pieces of str between the occurrences of sep
RECURSIVE split(_, _)
split(str, sep) ==
    IF \A i \in DOMAIN str : str[i] # sep THEN << str >>
    ELSE LET i == CHOOSE k \in DOMAIN str :
                      str[k] = sep /\ \A j \in 1..(k - 1) : str[j] # sep
         IN  << SubSeq(str, 1, i - 1) >>
             \o split(SubSeq(str, i + 1, Len(str)), sep)

\* const [a, b, c] = parts: the i-th piece, undefined when there is none
Piece(parts, i) == IF i <= Len(parts) THEN parts[i] ELSE Undefined

\* the month names of locale 'id'
MonthNames ==
    << << "J", "a", "n", "u", "a", "r", "i" >>,
       << "F", "e", "b", "r", "u", "a", "r", "i" >>,
       << "M", "a", "r", "e", "t" >>,
       << "A", "p", "r", "i", "l" >>,
       << "M", "e", "i" >>,
       << "J", "u", "n", "i" >>,
       << "J", "u", "l", "i" >>,
       << "A", "g", "u", "s", "t", "u", "s" >>,
       << "S", "e", "p", "t", "e", "m", "b", "e", "r" >>,
       << "O", "k", "t", "o", "b", "e", "r" >>,
       << "N", "o", "v", "e", "m", "b", "e", "r" >>,
       << "D", "e", "s", "e", "m", "b", "e", "r" >> >>

\* SAT.Format._getMonthName(month, 'id')
getMonthName(month) ==
    LET n == parseInt(month)
    IN  IF ~n.nan /\ n.num \in 1..12 THEN MonthNames[n.num] ELSE Undefined

\* SAT.Format.ToDate(date)
FormatToDate(ymd) ==
    LET parts == split(ymd, "-")
        year == Piece(parts, 1)
        month == Piece(parts, 2)
        day == Piece(parts, 3)
    IN  parseIntString(day) \o << " " >> \o getMonthName(month)
        \o << " " >> \o year

(***************************************************************************)
(* dateString.match(datePattern), as a backtracking matcher tries it.      *)
(* datePattern is: start of string; optionally a word, a comma if there    *)
(* is one, and blanks; then the captures: one or two digits (day), blanks, *)
(* a word (monthName), blanks, four digits (year).  The optional part is   *)
(* tried before it is skipped; inside it the word gives back one character *)
(* at a time, the comma is taken before it is left, the blanks are given   *)
(* back one at a time.  Each such try fixes the place where the captures   *)
(* have to match; the first place where they do gives the result.          *)
(***************************************************************************)
\* the places b, b-1, ..., a
Descending(a, b) == [k \in 1..(b - a + 1) |-> b - k + 1]

\* the places where the captures may start, in the order they are tried,
\* for the group's \w+ taking n, n-1, ..., 1 characters, then no group
RECURSIVE StartPlaces(_, _)
StartPlaces(str, n) ==
    IF n = 0 THEN << 1 >>
    ELSE LET after == n + 1
             comma == after <= Len(str) /\ str[after] = ","
         IN  (IF comma
              THEN Descending(after + 1, SkipWhile(str, after + 1, Blank))
              ELSE << >>)
             \o Descending(after, SkipWhile(str, after, Blank))
             \o StartPlaces(str, n - 1)

\* match is null
NoMatch == [ok |-> FALSE, day |-> <<>>, monthName |-> <<>>, year |-> <<>>]

\* the captures at place j, with a day of len digits
Captures(str, j, len) ==
    LET p == j + len
        q == SkipWhile(str, p, Blank)
        r == SkipWhile(str, q, WordChars)
        t == SkipWhile(str, r, Blank)
    IN  IF /\ p - 1 <= Len(str) /\ AllDigits(str, j, p - 1)
           /\ q > p /\ r > q /\ t > r
           /\ t + 3 <= Len(str) /\ AllDigits(str, t, t + 3)
        THEN [ok |-> TRUE, day |-> SubSeq(str, j, p - 1),
              monthName |-> SubSeq(str, q, r - 1),
              year |-> SubSeq(str, t, t + 3)]
        ELSE NoMatch

\* the captures at place j: two digits are tried before one
CapturesAt(str, j) ==
    IF Captures(str, j, 2).ok THEN Captures(str, j, 2)
    ELSE Captures(str, j, 1)

\* the captures at the first of the places where the pattern matches
RECURSIVE FirstMatch(_, _)
FirstMatch(str, places) ==
    IF places = << >> THEN NoMatch
    ELSE IF CapturesAt(str, Head(places)).ok
    THEN CapturesAt(str, Head(places))
    ELSE FirstMatch(str, Tail(places))

match(str) ==
    FirstMatch(str, StartPlaces(str, SkipWhile(str, 1, WordChars) - 1))

\* SAT.Parse._getMonthNumber(monthName): 1..12, or -1
getMonthNumber(monthName) ==
    LET lower == [i \in DOMAIN monthName |-> toLowerCase(monthName[i])]
        lowerNames == [m \in DOMAIN MonthNames |->
                          [i \in DOMAIN MonthNames[m] |->
                              toLowerCase(MonthNames[m][i])]]
    IN  IF \E m \in DOMAIN lowerNames : lowerNames[m] = lower
        THEN CHOOSE m \in DOMAIN lowerNames : lowerNames[m] = lower
        ELSE 0 - 1

\* SAT.Parse._padZero(num): num.toString().padStart(2, '0')
padZero(str) == IF Len(str) < 2 THEN << "0" >> \o str ELSE str

\* SAT.Parse.ToDate(dateString): the string returned, or the Error thrown
ParseToDate(dateString) ==
    LET m == match(dateString)
        month == getMonthNumber(m.monthName)
    IN  IF ~m.ok
        THEN [threw |-> TRUE, error |-> "Format tanggal tidak dikenali.",
              chars |-> << >>]
        ELSE IF month = 0 - 1
        THEN [threw |-> TRUE, error |-> "Nama bulan tidak valid.",
              chars |-> << >>]
        ELSE [threw |-> FALSE, error |-> "",
              chars |-> m.year \o << "-" >> \o padZero(Chars(month))
                        \o << "-" >> \o padZero(m.day)]

(***************************************************************************)
(* The record of the last operation: its name, its rule (a single check),  *)
(* its rule list (validateFields), how the predicate settled (the second   *)
(* stretch of asyncValidation) or the message of the Error thrown          *)
(* (throwErrorMessage), what it returned (for the second stretch           *)
(* of asyncValidation: what its promise resolved to), what each rule of a  *)
(* list returned, and whether it threw (asyncValidation: whether its       *)
(* promise rejected).  For a conversion of SAT: its name, its argument     *)
(* (the start of the rule), the characters of the string it returned (in   *)
(* the place of the list's results), the message of the Error it threw.    *)
(***************************************************************************)
NoRule == Rule("", "", "", 0, 0, "")

Did(op, rule, rules, outcome, ret, rets, threw) ==
    [op |-> op, rule |-> rule, rules |-> rules, outcome |-> outcome,
     ret |-> ret, rets |-> rets, threw |-> threw]

Page == << kind, val, checked, files, options >>

(***************************************************************************)
(* element.val(value) followed by element.val(): what a field holds after  *)
(* a value is assigned to it.                                              *)
(*                                                                         *)
(* A select holds the value of its selected option.  Assigning a value     *)
(* selects the first option of that value, or no option when there is      *)
(* none; val() of a select whose selected option is disabled, or that has  *)
(* no selected option, is null.                                            *)
(*                                                                         *)
(* The browser sanitizes the value of a typed input: a number input keeps  *)
(* a valid floating-point number, a date input a valid date, a time input  *)
(* a valid time, and anything else becomes the empty string; a             *)
(* datetime-local input keeps a valid local date and time in its           *)
(* normalized form (a "T" between date and time, the seconds left out when *)
(* they are zero); an email or url input strips the blanks around the      *)
(* value.  (No value of the model holds a line break, an exponent, a       *)
(* fraction of a second or a year of more than four digits.)               *)
(***************************************************************************)
\* null, a value that no string of characters equals
Null == << "null" >>

Option(value, disabled) == [value |-> value, disabled |-> disabled]

\* the values of the options of a select of the page as loaded: the empty
\* one first, then one for each value given to "a"
LoadedValues ==
    << <<>>, <<"1","8">>, <<"1","7">>, <<"9","9">>, <<"9","9",".","5">>,
       <<"a","b","c">>, <<"-","1","8">> >>
Loaded == [n \in DOMAIN LoadedValues |-> Option(LoadedValues[n], FALSE)]

chosen(opts, v) ==
    LET matches == {n \in DOMAIN opts : opts[n].value = v}
    IN  IF matches = {} THEN Null
        ELSE LET first == CHOOSE n \in matches : \A k \in matches : n <= k
             IN  IF opts[first].disabled THEN Null ELSE v

RECURSIVE trimmed(_)
trimmed(s) ==
    IF s # <<>> /\ s[1] \in Blank THEN trimmed(Tail(s))
    ELSE IF s # <<>> /\ s[Len(s)] \in Blank
         THEN trimmed(SubSeq(s, 1, Len(s) - 1))
         ELSE s

\* an optional "-", then digits, a "." followed by digits, or both
validNumber(s) ==
    LET i == IF s # <<>> /\ s[1] = "-" THEN 2 ELSE 1
        j == SkipWhile(s, i, Digits)
    IN  IF j <= Len(s) /\ s[j] = "."
        THEN LET k == SkipWhile(s, j + 1, Digits)
             IN  k > j + 1 /\ k = Len(s) + 1
        ELSE j > i /\ j = Len(s) + 1

\* YYYY-MM-DD, a day that exists of a year after 0
validDate(s) ==
    /\ Len(s) = 10
    /\ DatePart(s).valid
    /\ DatePart(s).y >= 1

\* HH:mm or HH:mm:ss, at most 23:59:59
validTime(s) ==
    /\ Len(s) \in {5, 8}
    /\ AllDigits(s, 1, 2) /\ s[3] = ":" /\ AllDigits(s, 4, 5)
    /\ DigitsValue(s, 1, 3) <= 23
    /\ DigitsValue(s, 4, 6) <= 59
    /\ Len(s) = 8 =>
          /\ s[6] = ":" /\ AllDigits(s, 7, 8)
          /\ DigitsValue(s, 7, 9) <= 59

\* a date, "T" or a blank, a time: normalized, or else the empty string
normalized(s) ==
    IF /\ Len(s) \in {16, 19}
       /\ validDate(SubSeq(s, 1, 10))
       /\ s[11] \in {"T", " "}
       /\ validTime(SubSeq(s, 12, Len(s)))
    THEN SubSeq(s, 1, 10) \o << "T" >> \o SubSeq(s, 12, 16)
         \o (IF Len(s) = 19 /\ DigitsValue(s, 18, 20) # 0
             THEN SubSeq(s, 17, 19) ELSE <<>>)
    ELSE <<>>

sanitized(type, v) ==
    CASE type = "number" -> IF validNumber(v) THEN v ELSE <<>>
      [] type = "date" -> IF validDate(v) THEN v ELSE <<>>
      [] type = "time" -> IF validTime(v) THEN v ELSE <<>>
      [] type = "datetime-local" -> normalized(v)
      [] type \in {"email", "url"} -> trimmed(v)
      [] OTHER -> v

assigned(f, v) ==
    IF kind[f] = "select" THEN chosen(options[f], v)
    ELSE sanitized(kind[f], v)

(***************************************************************************)
(* Init: the page as loaded and new Validator().                           *)
(***************************************************************************)
Start(kindsOfA) ==
    /\ kind \in [Fields -> kindsOfA \cup Kinds]
    /\ \A f \in Fields :
          kind[f] \in (IF f = "a" THEN kindsOfA ELSE KindsOf(f))
    /\ val = [f \in Fields |-> IF kind[f] \in Choice THEN OnValue ELSE <<>>]
    /\ checked = [f \in Fields |-> FALSE]
    /\ files = [f \in Fields |-> <<>>]
    /\ options = [f \in Fields |-> IF kind[f] = "select" THEN Loaded ELSE <<>>]
    /\ invalid = [f \in Fields |-> FALSE]
    /\ select2Invalid = [f \in Fields |-> FALSE]
    /\ html = [f \in Fields |-> ""]
    /\ on = [f \in Fields |-> {}]
    /\ errors = 0
    /\ errorMessages = <<>>
    /\ pending = {}
    /\ ncalls = 0
    /\ last = Did("new", NoRule, <<>>, "", "undefined", <<>>, FALSE)

Init == Start(Kinds)

(***************************************************************************)
(* The caller invokes one synchronous check.                               *)
(***************************************************************************)
SyncRules == {r \in Rules : r.method # "asyncValidation"}
AsyncRules == {r \in Rules : r.method = "asyncValidation"}

\* the operation returned r: its effects are installed and it is recorded
Returned(op, rule, rules, outcome, r) ==
    /\ Install(r.st)
    /\ last' = Did(op, rule, rules, outcome, r.ret, r.rets, r.threw)

\* what a single check gives its caller: its return value, or the exception
\* of the caller's predicate
checked1(r) ==
    [st |-> r.st, ret |-> r.ret, rets |-> <<>>, threw |-> r.ret = "throw"]

Check(rule) ==
    /\ ncalls < MaxCalls
    /\ Returned(rule.method, rule, <<>>, "", checked1(invoke(Cur, rule)))
    /\ ncalls' = ncalls + 1
    /\ UNCHANGED Page

CallRequired == \E r \in SyncRules : r.method = "required" /\ Check(r)
CallEqualTo ==
    \E r \in SyncRules : r.method = "equalTo" /\ r.other # r.f /\ Check(r)
CallMinValue == \E r \in SyncRules : r.method = "minValue" /\ Check(r)
CallMaxValue == \E r \in SyncRules : r.method = "maxValue" /\ Check(r)
CallRange == \E r \in SyncRules : r.method = "range" /\ Check(r)

(***************************************************************************)
(* The caller invokes asyncValidation, any number of times on the same     *)
(* field; later the awaited values settle, in any order.                   *)
(***************************************************************************)
CallAsyncValidation ==
    \E r \in AsyncRules : r.method = "asyncValidation" /\ Check(r)

Settle ==
    \E call \in pending, outcome \in Outcomes :
        /\ Returned("asyncSettle",
                    AsyncRule(call.f, "returning", call.message),
                    <<>>, outcome, asyncSettle(Cur, call, outcome))
        /\ UNCHANGED << Page, ncalls >>

(***************************************************************************)
(* The caller invokes validateFields or throwErrorMessage.                 *)
(***************************************************************************)
\* the rules of a list: the presence, equality and asynchronous checks, with
\* the default message
BatchRules ==
    {r \in Rules : /\ r.method \in {"required", "equalTo", "asyncValidation"}
                   /\ r.other # r.f
                   /\ r.message = ""}

\* the lists of at most n rules taken from a set of rules
RECURSIVE Lists(_, _)
Lists(rules, n) ==
    IF n = 0 THEN { <<>> }
    ELSE LET shorter == Lists(rules, n - 1)
         IN  shorter \cup { <<r>> \o l : r \in rules,
                                        l \in {x \in shorter : Len(x) = n - 1} }

RuleLists(n) == Lists(BatchRules, n)

\* the asyncValidation rules of a list, and those of them that are left
\* suspended at their await
asyncRules(validations) ==
    {i \in DOMAIN validations : validations[i].method = "asyncValidation"}
suspended(validations) ==
    {i \in asyncRules(validations) : validations[i].predicate # "throwing"}

\* what validateFields returns: undefined, or it throws
batched(r) ==
    [st |-> r.st, ret |-> "undefined", rets |-> r.rets, threw |-> r.threw,
     error |-> r.error]

\* the operation returned undefined or threw r.error
ReturnedOrThrew(op, rules, r) ==
    /\ Install(r.st)
    /\ last' = Did(op, NoRule, rules, r.error, r.ret, r.rets, r.threw)

Batch(validations) ==
    /\ ReturnedOrThrew("validateFields", validations,
                       batched(validateFields(Cur, validations)))
    /\ ncalls' = ncalls + Len(validations)
    /\ UNCHANGED Page

CallValidateFields ==
    \E validations \in RuleLists(MaxCalls - ncalls) : Batch(validations)

\* what throwErrorMessage returns: undefined, or it throws
thrown(r) ==
    [st |-> r.st, ret |-> "undefined", rets |-> <<>>, threw |-> r.threw,
     error |-> r.error]

ThrowMessages == {DefaultThrowMessage, "Form contains invalid fields."}

CallThrowErrorMessage ==
    \E message \in ThrowMessages :
        /\ ReturnedOrThrew("throwErrorMessage", <<>>,
                           thrown(throwErrorMessage(Cur, message)))
        /\ UNCHANGED << Page, ncalls >>

(***************************************************************************)
(* The user (or a script) changes a field and the events given are         *)
(* dispatched on it; a listener attached to one of them runs               *)
(* () => this.#setErrorMessage(element).                                   *)
(***************************************************************************)
dispatch(st, f, events) ==
    IF st.on[f] \cap events # {} THEN setErrorMessage(st, f, "") ELSE st

Dispatched(f, events) ==
    /\ Install(dispatch(Cur, f, events))
    /\ last' = Did("input", NoRule, <<>>, "", "undefined", <<>>, FALSE)
    /\ UNCHANGED ncalls

SetValue ==
    \E f \in Fields, v \in Values, events \in SUBSET Events :
        /\ kind[f] \notin Choice \cup {"file"}
        /\ v \in ValuesOf(f)
        /\ val' = [val EXCEPT ![f] = assigned(f, v)]
        /\ UNCHANGED << kind, checked, files, options >>
        /\ Dispatched(f, events)

SetChecked ==
    \E f \in Fields, c \in BOOLEAN, events \in SUBSET Events :
        /\ kind[f] \in Choice
        /\ checked' = [checked EXCEPT ![f] = c]
        /\ UNCHANGED << kind, val, files, options >>
        /\ Dispatched(f, events)

SetFiles ==
    \E f \in Fields, list \in FileLists, events \in SUBSET Events :
        /\ kind[f] = "file"
        /\ files' = [files EXCEPT ![f] = list]
        /\ val' = [val EXCEPT ![f] = IF list = <<>> THEN <<>> ELSE FakePath]
        /\ UNCHANGED << kind, checked, options >>
        /\ Dispatched(f, events)

(***************************************************************************)
(* SAT.Element.Empty(element) and SAT.Element.Vanish(element, container):  *)
(* element.val('') followed by change().  The value becomes the empty      *)
(* string (the value attribute of a radio or checkbox, whose checked state *)
(* stays; the file list of a file input), except that of a select without  *)
(* an enabled first option of value '', which becomes null; the listeners  *)
(* of change run.  Vanish hides the container and disables the element     *)
(* before, neither of which a check reads.                                 *)
(***************************************************************************)
Empty ==
    \E f \in Fields :
        /\ val' = [val EXCEPT ![f] = assigned(f, <<>>)]
        /\ files' = [files EXCEPT ![f] = <<>>]
        /\ UNCHANGED << kind, checked, options >>
        /\ Dispatched(f, {"change"})

Vanish ==
    \E f \in Fields :
        /\ val' = [val EXCEPT ![f] = assigned(f, <<>>)]
        /\ files' = [files EXCEPT ![f] = <<>>]
        /\ UNCHANGED << kind, checked, options >>
        /\ Dispatched(f, {"change"})

(***************************************************************************)
(* SAT.Form.PopulateSelect({element, items, selectedValue,                 *)
(* includePlaceholder, ...}): the options of a select are replaced by a    *)
(* disabled placeholder of value '' (if included) and one option for each  *)
(* of items (given here by their values).  The option selected is the      *)
(* last item equal to selectedValue, or else the first item; no event is   *)
(* dispatched.                                                             *)
(***************************************************************************)
Items == { << <<"1","8">> >>, << <<>>, <<"1","8">> >> }

Placeholder == Option(<<>>, TRUE)

populated(items, includePlaceholder) ==
    (IF includePlaceholder THEN << Placeholder >> ELSE <<>>)
    \o [n \in DOMAIN items |-> Option(items[n], FALSE)]

selected(items, selectedValue) ==
    IF \E n \in DOMAIN items : items[n] = selectedValue
    THEN selectedValue ELSE items[1]

PopulateSelect ==
    \E f \in Fields, items \in Items, selectedValue \in Values,
       includePlaceholder \in BOOLEAN :
        /\ kind[f] = "select"
        /\ options' = [options EXCEPT ![f] = populated(items, includePlaceholder)]
        /\ val' = [val EXCEPT ![f] = selected(items, selectedValue)]
        /\ UNCHANGED << kind, checked, files >>
        /\ Dispatched(f, {})

SetNumericValue ==
    \E f \in BoundFields, v \in NumericValues, events \in SUBSET Events :
        /\ kind[f] \notin Choice \cup {"file"}
        /\ val' = [val EXCEPT ![f] = assigned(f, v)]
        /\ UNCHANGED << kind, checked, files, options >>
        /\ Dispatched(f, events)

Next ==
    \/ CallRequired
    \/ CallEqualTo
    \/ CallAsyncValidation
    \/ Settle
    \/ CallValidateFields
    \/ CallThrowErrorMessage
    \/ SetValue
    \/ SetChecked
    \/ SetFiles
    \/ Empty
    \/ Vanish
    \/ PopulateSelect

Spec == Init /\ [][Next]_vars

(***************************************************************************)
(* The numeric bound checks, on a field of a category they name (text,     *)
(* number) or do not name (textarea).                                      *)
(***************************************************************************)
InitNumeric == Init /\ kind["a"] \in NumericKinds

NextNumeric ==
    \/ CallRequired
    \/ CallMinValue
    \/ CallMaxValue
    \/ CallRange
    \/ CallThrowErrorMessage
    \/ SetNumericValue

SpecNumeric == InitNumeric /\ [][NextNumeric]_vars

(***************************************************************************)
(* custom with the caller's predicates, alone and as a rule of             *)
(* validateFields, next to required and asyncValidation.                   *)
(***************************************************************************)
CustomKinds == {"text", "select"}

InitCustom == Init /\ kind["a"] \in CustomKinds

CustomRules ==
    { CustomRule(f, p, m) : f \in BoundFields, p \in Predicates, m \in Messages }

CallCustom == \E r \in CustomRules : r.method = "custom" /\ Check(r)

\* the rules of a list: custom on "a", required on "b", default messages
CustomBatchRules ==
    { CustomRule("a", p, "") : p \in Predicates }
    \cup { Rule("required", "b", "", 0, 0, "") }

CallValidateFieldsCustom ==
    \E validations \in Lists(CustomBatchRules, MaxCalls - ncalls) :
        Batch(validations)

NextCustom ==
    \/ CallCustom
    \/ CallRequired
    \/ CallAsyncValidation
    \/ Settle
    \/ CallValidateFieldsCustom
    \/ CallThrowErrorMessage
    \/ SetNumericValue

SpecCustom == InitCustom /\ [][NextCustom]_vars

(***************************************************************************)
(* The checks whose default message interpolates their parameters (range,  *)
(* fileSize), next to required and asyncValidation, on a text, number or   *)
(* file input.                                                             *)
(***************************************************************************)
MessageKinds == {"text", "number", "file"}

InitMessages == Init /\ kind["a"] \in MessageKinds

\* the maxSize arguments of fileSize, in bytes (Validator.js:583, 591)
MaxSizes == {MB, 2 * MB}

FileSizeRules ==
    { Rule("fileSize", f, "", 0, size, m) :
        f \in BoundFields, size \in MaxSizes, m \in Messages }

CallFileSize == \E r \in FileSizeRules : r.method = "fileSize" /\ Check(r)

NextMessages ==
    \/ CallRequired
    \/ CallRange
    \/ CallFileSize
    \/ CallAsyncValidation
    \/ Settle
    \/ SetNumericValue
    \/ SetFiles

SpecMessages == InitMessages /\ [][NextMessages]_vars

(***************************************************************************)
(* The user acts on a field after checks on it: required, email, maxLength *)
(* and asyncValidation on a text or email input.  The field then holds a   *)
(* value (another one, or the same: a key that types nothing, an event     *)
(* triggered by a script) and keyup (typing), change (pasting with the     *)
(* mouse, autofill, leaving the field) or both are dispatched on the       *)
(* element; a listener attached to one of them runs whatever the value.    *)
(***************************************************************************)
ClearKinds == {"text", "email"}

InitClear == Init /\ kind["a"] \in ClearKinds

\* a value every check of this specification accepts, and two it rejects
GoodValue == << "a", "@", "b", ".", "c" >>
ClearValues == { <<>>, GoodValue, << "a", "b", "c", "d", "e", "f" >> }

\* the length argument of maxLength
MaxLengths == {5}

ClearRules ==
    { Rule("maxLength", f, "", 0, n, m) :
        f \in BoundFields, n \in MaxLengths, m \in Messages }
    \cup { Rule("email", f, "", 0, 0, m) : f \in BoundFields, m \in Messages }

CallMaxLength == \E r \in ClearRules : r.method = "maxLength" /\ Check(r)
CallEmail == \E r \in ClearRules : r.method = "email" /\ Check(r)

\* the events dispatched on the element
UserEvents == {"keyup", "change", "keyup change"}
EventsOf(e) ==
    CASE e = "keyup" -> {"keyup"}
      [] e = "change" -> {"change"}
      [] e = "keyup change" -> {"keyup", "change"}

UserChange ==
    \E f \in BoundFields, v \in ClearValues, e \in UserEvents :
        /\ val' = [val EXCEPT ![f] = assigned(f, v)]
        /\ Install(dispatch(Cur, f, EventsOf(e)))
        /\ last' = Did("change", Rule("", f, "", 0, 0, ""), <<>>, e,
                       "undefined", <<>>, FALSE)
        /\ UNCHANGED << kind, checked, files, options, ncalls >>

NextClear ==
    \/ CallRequired
    \/ CallMaxLength
    \/ CallEmail
    \/ CallAsyncValidation
    \/ Settle
    \/ UserChange

SpecClear == InitClear /\ [][NextClear]_vars

(***************************************************************************)
(* required, numeric and range on one instance, whose errors and           *)
(* errorMessages grow with every failure, on a text, number, select or     *)
(* hidden input.                                                           *)
(***************************************************************************)
PureKinds == {"text", "number", "select", "hidden"}

InitPure == Init /\ kind["a"] \in PureKinds

NumericRules ==
    { Rule("numeric", f, "", 0, 0, m) : f \in BoundFields, m \in Messages }

CallNumeric == \E r \in NumericRules : r.method = "numeric" /\ Check(r)

NextPure ==
    \/ CallRequired
    \/ CallNumeric
    \/ CallRange
    \/ SetNumericValue

SpecPure == InitPure /\ [][NextPure]_vars

(***************************************************************************)
(* SAT.Format.ToDate applied to a date, then SAT.Parse.ToDate applied to   *)
(* what it returned.  The dates: every day that exists of every month of   *)
(* the years given.                                                        *)
(***************************************************************************)
Years == {1900, 2000, 2023, 2099}

DateString(y, m, d) ==
    Chars(y) \o << "-" >> \o padZero(Chars(m)) \o << "-" >> \o padZero(Chars(d))

InitConvert == Start({"text"})

Converted(op, arg, chars, error, threw) ==
    /\ last' = Did(op, [NoRule EXCEPT !.start = arg], <<>>, error, "undefined",
                   chars, threw)
    /\ UNCHANGED << kind, val, checked, files, options, invalid,
                    select2Invalid, html, on, errors, errorMessages,
                    pending, ncalls >>

Formatted(ymd) ==
    Converted("Format.ToDate", ymd, FormatToDate(ymd), "", FALSE)

CallFormatToDate ==
    \E y \in Years, m \in 1..12, d \in 1..31 :
        /\ d <= DaysIn(y, m)
        /\ Formatted(DateString(y, m, d))

Parsed(arg, r) == Converted("Parse.ToDate", arg, r.chars, r.error, r.threw)

CallParseToDate ==
    /\ last.op = "Format.ToDate"
    /\ Parsed(last.rets, ParseToDate(last.rets))

NextConvert ==
    \/ CallFormatToDate
    \/ CallParseToDate

SpecConvert == InitConvert /\ [][NextConvert]_vars

(***************************************************************************)
(* The date bound checks, with their default formats, on a field of a      *)
(* category they name (text, date, datetime-local) or do not name          *)
(* (textarea).                                                             *)
(***************************************************************************)
DateKinds == {"text", "date", "datetime-local", "textarea"}

InitDate == Start(DateKinds)

\* the values of "a": empty, a date, a day that does not exist, a date
\* before the bounds, a month of one digit, a date and time
DateValues ==
    { <<>>,
      << "2", "0", "2", "3", "-", "0", "6", "-", "1", "5" >>,
      << "2", "0", "2", "3", "-", "0", "2", "-", "3", "0" >>,
      << "2", "0", "2", "2", "-", "1", "2", "-", "3", "1" >>,
      << "2", "0", "2", "3", "-", "6", "-", "1", "5" >>,
      << "2", "0", "2", "3", "-", "0", "6", "-", "1", "5", " ", "1", "0", ":", "0", "0", ":", "0", "0" >> }

\* the bound arguments: a start and an end, and a month that does not exist
StartDate == << "2", "0", "2", "3", "-", "0", "1", "-", "0", "1" >>
EndDate == << "2", "0", "2", "3", "-", "1", "2", "-", "3", "1" >>
StartDatetime == << "2", "0", "2", "3", "-", "0", "1", "-", "0", "1", " ", "0", "8", ":", "0", "0", ":", "0", "0" >>
EndDatetime == << "2", "0", "2", "3", "-", "1", "2", "-", "3", "1", " ", "1", "8", ":", "0", "0", ":", "0", "0" >>
BadBound == << "2", "0", "2", "3", "-", "1", "3", "-", "0", "1" >>

DateRules ==
    { DateRule("minDate", "a", b, <<>>, DateFormat, "") :
        b \in {StartDate, BadBound} }
    \cup { DateRule("maxDate", "a", <<>>, b, DateFormat, "") :
             b \in {EndDate, BadBound} }
    \cup { DateRule("dateBetween", "a", b, EndDate, DateFormat, "") :
             b \in {StartDate, BadBound} }
    \cup { DateRule("minDatetime", "a", b, <<>>, DatetimeFormat, "") :
             b \in {StartDatetime, BadBound} }
    \cup { DateRule("maxDatetime", "a", <<>>, b, DatetimeFormat, "") :
             b \in {EndDatetime, BadBound} }
    \cup { DateRule("datetimeBetween", "a", b, EndDatetime, DatetimeFormat, "") :
             b \in {StartDatetime, BadBound} }

CallMinDate == \E r \in DateRules : r.method = "minDate" /\ Check(r)
CallMaxDate == \E r \in DateRules : r.method = "maxDate" /\ Check(r)
CallDateBetween == \E r \in DateRules : r.method = "dateBetween" /\ Check(r)
CallMinDatetime == \E r \in DateRules : r.method = "minDatetime" /\ Check(r)
CallMaxDatetime == \E r \in DateRules : r.method = "maxDatetime" /\ Check(r)
CallDatetimeBetween ==
    \E r \in DateRules : r.method = "datetimeBetween" /\ Check(r)

SetDateValue ==
    \E v \in DateValues, events \in SUBSET Events :
        /\ val' = [val EXCEPT !["a"] = assigned("a", v)]
        /\ UNCHANGED << kind, checked, files, options >>
        /\ Dispatched("a", events)

NextDate ==
    \/ CallMinDate
    \/ CallMaxDate
    \/ CallDateBetween
    \/ CallMinDatetime
    \/ CallMaxDatetime
    \/ CallDatetimeBetween
    \/ SetDateValue

SpecDate == InitDate /\ [][NextDate]_vars

(***************************************************************************)
(* HTTP (src/assets/app/core/HTTP.js).  A value that travels through       *)
(* HTTP.fetch is a record of one shape: type says what it is ("object": a  *)
(* parsed JSON object; "null": the JSON value null; "jqXHR": the request   *)
(* object jQuery hands to its error callback; "Error", "TypeError": an     *)
(* exception; "undefined"), status is its status property (Absent when it  *)
(* has none), exception says whether it has an exception property and      *)
(* message is that property's message (of an exception: its own message).  *)
(***************************************************************************)
Absent == "undefined"

Value(type, status, exception, message) ==
    [type |-> type, status |-> status, exception |-> exception,
     message |-> message]

undefined == Value("undefined", Absent, FALSE, "")

\* new Error(message)
Error(message) == Value("Error", Absent, FALSE, message)

\* reading a property of null: a TypeError
NullRead == Value("TypeError", Absent, FALSE, "Cannot read properties of null")

UnknownError == "An unknown error occurred."

\* A faulty variant: the custom message is ignored.
checkErrorResponsesIgnoringMessage(response, errorMessage) ==
    IF response.type = "null" THEN [threw |-> TRUE, value |-> NullRead]
    ELSE IF response.status = "failed" \/ response.status = "error"
    THEN [threw |-> TRUE,
          value |-> Error(IF response.exception /\ response.message # ""
                          THEN response.message ELSE UnknownError)]
    ELSE [threw |-> FALSE, value |-> undefined]

\* HTTP.checkErrorResponses(response, errorMessage): whether it threw, and
\* the exception thrown
checkErrorResponses(response, errorMessage) ==
    IF response.type = "null" THEN [threw |-> TRUE, value |-> NullRead]
    ELSE IF response.status = "failed" \/ response.status = "error"
    THEN IF errorMessage = ""
         THEN [threw |-> TRUE,
               value |-> Error(IF response.exception /\ response.message # ""
                               THEN response.message ELSE UnknownError)]
         ELSE [threw |-> TRUE, value |-> Error(errorMessage)]
    ELSE [threw |-> FALSE, value |-> undefined]

\* HTTP.fetch after the success callback: the inner promise resolves with
\* response, checkErrorResponses runs, response is returned
afterSuccess(response, errorMessage) ==
    IF checkErrorResponses(response, errorMessage).threw
    THEN [settled |-> "rejected",
          value |-> checkErrorResponses(response, errorMessage).value]
    ELSE [settled |-> "resolved", value |-> response]

\* HTTP.fetch after the error callback: the inner promise rejects with the
\* callback's first argument, and the await rethrows it
afterError(xhr) == [settled |-> "rejected", value |-> xhr]

(***************************************************************************)
(* HTTP.fetch and HTTP.checkErrorResponses at work: requests in flight     *)
(* (pending), and the last operation: its name, the response it was given  *)
(* (fetch: what jQuery handed to the callback), the errorMessage option,   *)
(* how it ended (a call of fetch: "pending"; fetch settled: "resolved" or  *)
(* "rejected"; checkErrorResponses: "returned" or "threw") and the value   *)
(* it ended with.                                                          *)
(***************************************************************************)
Statuses == {"success", "failed", "error", Absent}
ExceptionMessages == {"", "SQLSTATE[23000]"}
ErrorMessages == {"", "Failed to create user."}

\* the JSON objects a server answers with
ObjectResponses ==
    { Value("object", s, FALSE, "") : s \in Statuses }
    \cup { Value("object", s, TRUE, m) :
             s \in Statuses, m \in ExceptionMessages }

\* what the success callback may be given: an object, or null
ServerResponses == ObjectResponses \cup { Value("null", Absent, FALSE, "") }

\* what the error callback is given: the jqXHR, with the HTTP status
XHRs == { Value("jqXHR", s, FALSE, "") : s \in {"0", "500"} }

Http(op, response, errorMessage, settled, value) ==
    [op |-> op, response |-> response, errorMessage |-> errorMessage,
     settled |-> settled, value |-> value]

InitHTTP == Start({"text"})

PageAndValidator ==
    << kind, val, checked, files, options, invalid, select2Invalid, html, on,
       errors, errorMessages >>

CallFetch ==
    \E errorMessage \in ErrorMessages :
        /\ ncalls < MaxCalls
        /\ ncalls' = ncalls + 1
        /\ pending' = pending
              \cup {[id |-> ncalls + 1, errorMessage |-> errorMessage]}
        /\ last' = Http("fetch", undefined, errorMessage, "pending", undefined)
        /\ UNCHANGED PageAndValidator

Settled(p, response, r) ==
    /\ pending' = pending \ {p}
    /\ last' = Http("fetch settled", response, p.errorMessage, r.settled,
                    r.value)
    /\ UNCHANGED << PageAndValidator, ncalls >>

AjaxSuccess ==
    \E p \in pending, response \in ServerResponses :
        /\ p.id \in 1..ncalls
        /\ Settled(p, response, afterSuccess(response, p.errorMessage))

AjaxError ==
    \E p \in pending, xhr \in XHRs :
        /\ p.id \in 1..ncalls
        /\ Settled(p, xhr, afterError(xhr))

Checked(response, errorMessage, r) ==
    /\ last' = Http("checkErrorResponses", response, errorMessage,
                    IF r.threw THEN "threw" ELSE "returned", r.value)
    /\ UNCHANGED << PageAndValidator, pending, ncalls >>

CallCheckErrorResponses ==
    \E response \in ObjectResponses, errorMessage \in ErrorMessages :
        /\ response.type = "object"
        /\ Checked(response, errorMessage,
                   checkErrorResponses(response, errorMessage))

NextHTTP ==
    \/ CallFetch
    \/ AjaxSuccess
    \/ AjaxError
    \/ CallCheckErrorResponses

SpecHTTP == InitHTTP /\ [][NextHTTP]_vars


(***************************************************************************)
(* SAT.Util.AnonymizeText (src/assets/app/core/SAT.js), on strings kept as *)
(* sequences of one-character strings: the string returned, or the Error   *)
(* thrown ('*'.repeat of a negative count is a RangeError).                *)
(***************************************************************************)
\* str.substring(0, n)
substring0(str, n) == SubSeq(str, 1, IF n < Len(str) THEN n ELSE Len(str))

\* '*'.repeat(n), for n >= 0
repeat(n) == [i \in 1..n |-> "*"]

\* what AnonymizeText makes of the local part and the domain, for a
\* given number of visible characters
anonymized(localPart, domain, visibleCount) ==
    IF Len(localPart) - visibleCount < 0
    THEN [threw |-> TRUE, error |-> "RangeError", chars |-> << >>]
    ELSE [threw |-> FALSE, error |-> "",
          chars |-> substring0(localPart, visibleCount)
                    \o repeat(Len(localPart) - visibleCount)
                    \o << "@" >> \o domain]

\* A faulty variant: three characters stay visible whatever the length.
AnonymizeTextAlwaysThree(address) ==
    anonymized(split(address, "@")[1], Piece(split(address, "@"), 2), 3)

\* SAT.Util.AnonymizeText(email)
AnonymizeText(address) ==
    anonymized(split(address, "@")[1], Piece(split(address, "@"), 2),
               IF Len(split(address, "@")[1]) < 4 THEN 1 ELSE 3)

(***************************************************************************)
(* SAT.Format.ToRoman (src/assets/app/core/SAT.js), on a number that is an *)
(* integer or NaN: the characters of the string returned.                  *)
(***************************************************************************)
romanNumerals ==
    << [value |-> 1000, numeral |-> << "M" >>],
       [value |-> 900, numeral |-> << "C", "M" >>],
       [value |-> 500, numeral |-> << "D" >>],
       [value |-> 400, numeral |-> << "C", "D" >>],
       [value |-> 100, numeral |-> << "C" >>],
       [value |-> 90, numeral |-> << "X", "C" >>],
       [value |-> 50, numeral |-> << "L" >>],
       [value |-> 40, numeral |-> << "X", "L" >>],
       [value |-> 10, numeral |-> << "X" >>],
       [value |-> 9, numeral |-> << "I", "X" >>],
       [value |-> 5, numeral |-> << "V" >>],
       [value |-> 4, numeral |-> << "I", "V" >>],
       [value |-> 1, numeral |-> << "I" >>] >>

\* the forEach over the table from its i-th entry on, with its while loop
RECURSIVE toRomanFrom(_, _, _)
toRomanFrom(table, num, i) ==
    IF i > Len(table) THEN << >>
    ELSE IF num >= table[i].value
    THEN table[i].numeral \o toRomanFrom(table, num - table[i].value, i)
    ELSE toRomanFrom(table, num, i + 1)

\* A faulty variant: the table has no subtractive pairs.
ToRomanAdditive(num) ==
    IF num.nan THEN << >>
    ELSE toRomanFrom(SelectSeq(romanNumerals, LAMBDA e : Len(e.numeral) = 1),
                     num.num, 1)

\* SAT.Format.ToRoman(num)
ToRoman(num) ==
    IF num.nan THEN << >> ELSE toRomanFrom(romanNumerals, num.num, 1)

(***************************************************************************)
(* One call of AnonymizeText, or of ToRoman, by a page just loaded: the    *)
(* argument is kept in the record of the last operation (of AnonymizeText: *)
(* as the start of the rule; of ToRoman: as the rule's min, or "NaN" as    *)
(* its other), the characters returned in the place of a list's results.   *)
(***************************************************************************)
EmailChars == {"a", "b", ".", "@"}
EmailLengths == 0..6
Emails == UNION { [1..n -> EmailChars] : n \in EmailLengths }

InitAnonymize == Start({"text"})

Anonymized(address, r) ==
    Converted("Util.AnonymizeText", address, r.chars, r.error, r.threw)

CallAnonymizeText ==
    \E address \in Emails :
        /\ last.op = "new"
        /\ Anonymized(address, AnonymizeText(address))

SpecAnonymize == InitAnonymize /\ [][CallAnonymizeText]_vars

RomanIntegers == (0 - 3)..3999
RomanNumbers ==
    {NaN} \cup {[nan |-> FALSE, num |-> n, den |-> 1] : n \in RomanIntegers}

InitRoman == Start({"text"})

Romanized(num, chars) ==
    /\ last' = Did("Format.ToRoman",
                   [NoRule EXCEPT !.min = num.num,
                                  !.other = IF num.nan THEN "NaN" ELSE ""],
                   <<>>, "", "undefined", chars, FALSE)
    /\ UNCHANGED << kind, val, checked, files, options, invalid,
                    select2Invalid, html, on, errors, errorMessages,
                    pending, ncalls >>

CallToRoman ==
    \E num \in RomanNumbers :
        /\ last.op = "new"
        /\ Romanized(num, ToRoman(num))

SpecRoman == InitRoman /\ [][CallToRoman]_vars


(***************************************************************************)
(* The checks that name element categories (alphabetic, alphanumeric,      *)
(* numeric, range, minLength, maxLength, pattern, fileType, fileExtension, *)
(* date, datetime, time, url, phoneNumber), each applied to a field of a   *)
(* category it names or does not name, and the two checks that name none   *)
(* (requiredIf, boolean).                                                  *)
(***************************************************************************)
ScopeKinds ==
    {"text", "textarea", "number", "select", "file", "hidden", "url", "tel",
     "date", "time", "datetime-local"}

InitScope == Start(ScopeKinds)

\* the allowedTypes argument of fileType
AllowedTypes == { << "image/png" >>, << "image/png", "application/pdf" >> }
\* the allowedExtensions argument of fileExtension
AllowedExtensions == { << "png" >>, << "pdf", "docx" >> }
\* the expectedValue argument of requiredIf
ExpectedValues == Values

\* the values assigned to "a" when its format is checked: dates, a time, web
\* addresses, booleans, a telephone number, a short word
FormatValues ==
    { <<"2","0","2","3","-","0","6","-","1","5">>,
      <<"2","0","2","3","-","0","2","-","3","0">>,
      <<"2","0","2","3","-","0","6","-","1","5"," ","0","8",":","3","0",":","0","0">>,
      <<"0","8",":","3","0",":","0","0">>,
      <<"a",".","i","d">>,
      <<"h","t","t","p",":","/","/","a",".","i","d","/","x">>,
      <<"t","r","u","e">>,
      <<"0">>,
      <<"+","6","2"," ","2","1">>,
      <<"a","b">> }

ScopeRules ==
    { Rule(m, "a", "", 0, 0, "") :
        m \in {"alphabetic", "alphanumeric", "boolean", "url", "phoneNumber"} }
    \cup { [Rule("fileType", "a", "", 0, 0, "") EXCEPT !.start = t] :
             t \in AllowedTypes }
    \cup { [Rule("fileExtension", "a", "", 0, 0, "") EXCEPT !.start = e] :
             e \in AllowedExtensions }
    \cup { Rule("maxLength", "a", "", 0, 2, "") }
    \cup { Rule("minLength", "a", "", 3, 0, "") }
    \cup { [Rule("requiredIf", f, g, 0, 0, "") EXCEPT !.start = v] :
             f \in Fields, g \in Fields, v \in ExpectedValues }
    \cup { [Rule("pattern", "a", "", 0, 0, "") EXCEPT !.format = UsernameRegex] }
    \cup { [Rule("date", "a", "", 0, 0, "") EXCEPT !.format = DateFormat] }
    \cup { [Rule("datetime", "a", "", 0, 0, "")
               EXCEPT !.format = DatetimeFormat] }
    \cup { [Rule("time", "a", "", 0, 0, "") EXCEPT !.format = TimeFormat] }

CallAlphabetic == \E r \in ScopeRules : r.method = "alphabetic" /\ Check(r)
CallAlphanumeric == \E r \in ScopeRules : r.method = "alphanumeric" /\ Check(r)
CallFileType == \E r \in ScopeRules : r.method = "fileType" /\ Check(r)
CallMaxLengthTwo == \E r \in ScopeRules : r.method = "maxLength" /\ Check(r)
CallRequiredIf == \E r \in ScopeRules : r.method = "requiredIf" /\ Check(r)
CallBoolean == \E r \in ScopeRules : r.method = "boolean" /\ Check(r)
CallMinLength == \E r \in ScopeRules : r.method = "minLength" /\ Check(r)
CallPattern == \E r \in ScopeRules : r.method = "pattern" /\ Check(r)
CallFileExtension ==
    \E r \in ScopeRules : r.method = "fileExtension" /\ Check(r)
CallDate == \E r \in ScopeRules : r.method = "date" /\ Check(r)
CallDatetime == \E r \in ScopeRules : r.method = "datetime" /\ Check(r)
CallTime == \E r \in ScopeRules : r.method = "time" /\ Check(r)
CallUrl == \E r \in ScopeRules : r.method = "url" /\ Check(r)
CallPhoneNumber == \E r \in ScopeRules : r.method = "phoneNumber" /\ Check(r)

SetFormatValue ==
    \E f \in BoundFields, v \in FormatValues, events \in SUBSET Events :
        /\ kind[f] \notin Choice \cup {"file"}
        /\ val' = [val EXCEPT ![f] = assigned(f, v)]
        /\ UNCHANGED << kind, checked, files, options >>
        /\ Dispatched(f, events)

NextScope ==
    \/ CallAlphabetic
    \/ CallAlphanumeric
    \/ CallNumeric
    \/ CallFileType
    \/ CallMaxLengthTwo
    \/ CallRange
    \/ CallRequiredIf
    \/ CallBoolean
    \/ CallMinLength
    \/ CallPattern
    \/ CallFileExtension
    \/ CallDate
    \/ CallDatetime
    \/ CallTime
    \/ CallUrl
    \/ CallPhoneNumber
    \/ SetNumericValue
    \/ SetFormatValue
    \/ SetFiles

SpecScope == InitScope /\ [][NextScope]_vars


(***************************************************************************)
(* Properties.                                                             *)
(***************************************************************************)
\* the field the last check was applied to
LastField == last.rule.f

SyncMethods ==
    {"required", "equalTo", "minValue", "maxValue", "range", "custom",
     "fileSize", "maxLength", "email", "numeric", "minDate", "maxDate", "minDatetime",
     "maxDatetime", "dateBetween", "datetimeBetween", "alphabetic",
     "alphanumeric", "fileType", "requiredIf", "boolean", "minLength",
     "pattern", "fileExtension", "date", "datetime", "time", "url",
     "phoneNumber"}

Display == << invalid, select2Invalid, html >>

\* C1: throwErrorMessage throws if and only if errors >= 1 when it is called;
\* with errors = 0 it returns normally and leaves errors, errorMessages and
\* every field's invalid indicator and message as they were.
C1_ThrowIffErrors ==
    [][ last'.op = "throwErrorMessage"
        => /\ last'.threw <=> (errors >= 1)
           /\ errors = 0 => UNCHANGED << errors, errorMessages, Display >> ]_vars

\* throwErrorMessage threw on an instance that had counted an error
C1_Witness ==
    /\ last.op = "throwErrorMessage"
    /\ last.threw
    /\ errors >= 1

\* C2: for every text-like field (text, email, password, number input,
\* select, textarea) whose value is the empty string, required returns false
\* and errors grows by exactly 1, whatever the state of the validator before.
C2_RequiredEmptyTextLike ==
    [][ ( /\ last'.op = "required"
          /\ kind[last'.rule.f] \in
                {"text", "email", "password", "number", "select", "textarea"}
          /\ val[last'.rule.f] = <<>> )
        => /\ last'.ret = "false"
           /\ errors' = errors + 1 ]_vars

\* required failed on an empty select of a validator that had an error already
C2_Witness ==
    /\ last.op = "required"
    /\ last.ret = "false"
    /\ kind[LastField] = "select"
    /\ val[LastField] = <<>>
    /\ errors = 2

\* the places of the rules of a list that returned false
Failed(rets) == {i \in DOMAIN rets : rets[i] = "false"}

\* the place in the list of the j-th rule that returned false
RECURSIVE NthFailed(_, _)
NthFailed(rets, j) ==
    LET first == CHOOSE i \in Failed(rets) : \A k \in Failed(rets) : i <= k
    IN  IF j = 1 THEN first
        ELSE NthFailed([i \in DOMAIN rets |->
                           IF i = first THEN "true" ELSE rets[i]], j - 1)

\* C3: validateFields on a fresh Validator with N (synchronous) rules of
\* which exactly K fail leaves errors = K and K entries in errorMessages, one
\* per failed rule, in rule order, whatever the category of the fields.
C3_BatchCountsFailures ==
    [][ ( /\ last'.op = "validateFields"
          /\ ncalls = 0
          /\ \A i \in DOMAIN last'.rets : last'.rets[i] \in {"true", "false"} )
        => LET K == Cardinality(Failed(last'.rets))
           IN  /\ errors' = K
               /\ Len(errorMessages') = K
               /\ \A j \in 1..K :
                     /\ errorMessages'[j].element =
                           hashId(last'.rules[NthFailed(last'.rets, j)].f)
                     /\ errorMessages'[j].message # "" ]_vars

\* the entries of errorMessages recorded for field f
EntriesOf(list, f) == {i \in DOMAIN list : list[i].element = hashId(f)}

\* C4: when a check on a field failed and a later check on the same field
\* (synchronous, or asyncValidation resolving to true) succeeds, the field's
\* invalid indicator is cleared and the field's earlier entry is no longer
\* present in errorMessages: after a check that returned true its field is
\* not marked invalid and has no entry.
C4_PassRemovesEntry ==
    (last.op \in SyncMethods \cup {"asyncSettle"} /\ last.ret = "true")
    => /\ ~invalid[LastField]
       /\ EntriesOf(errorMessages, LastField) = {}

\* the fields that carry an active (non-empty-message) error
Active == {f \in Fields : html[f] # ""}

\* C5: in every reachable state errors equals the number of fields
\* that currently carry an active (non-empty-message) error.
C5_ErrorsEqualActive == errors = Cardinality(Active)

\* C6: a check that passes never changes errors or errorMessages, so that
\* running the same check twice in a row on a passing value leaves errors
\* unchanged and adds no entry.
C6_PassingCheckIdempotent ==
    [][ (last'.op \in SyncMethods /\ last'.ret = "true")
        => /\ errors' = errors
           /\ errorMessages' = errorMessages ]_vars

\* range has passed as the second check in a row with nothing recorded
C6_Witness ==
    /\ last.op = "range"
    /\ last.ret = "true"
    /\ ncalls = 2
    /\ ~parseFloat(val[LastField]).nan
    /\ errors = 0
    /\ errorMessages = <<>>

\* the value of field f as range reads it
NumberOf(f) == parseFloat(val[f])

\* min <= v <= max for the rational v
Within(v, min, max) == min * v.den <= v.num /\ v.num <= max * v.den

\* C7: for a text or number input whose value parses to a number v,
\* range(field, min, max) returns true exactly when min <= v <= max, and
\* returns false with errors incremented by 1 otherwise.
C7_RangeInclusive ==
    [][ ( /\ last'.op = "range"
          /\ kind[last'.rule.f] \in {"text", "number"}
          /\ ~NumberOf(last'.rule.f).nan )
        => IF Within(NumberOf(last'.rule.f), last'.rule.min, last'.rule.max)
           THEN last'.ret = "true"
           ELSE last'.ret = "false" /\ errors' = errors + 1 ]_vars

\* range has accepted the value equal to its upper bound
C7_Witness ==
    /\ last.op = "range"
    /\ last.ret = "true"
    /\ kind[LastField] = "number"
    /\ val[LastField] = << "9", "9" >>
    /\ last.rule.max = 99

\* C8: for a text or number input whose value parses to NaN, minValue,
\* maxValue and range each return false and increment errors.
C8_NaNFailsBounds ==
    [][ ( /\ last'.op \in {"minValue", "maxValue", "range"}
          /\ kind[last'.rule.f] \in {"text", "number"}
          /\ NumberOf(last'.rule.f).nan )
        => /\ last'.ret = "false"
           /\ errors' = errors + 1 ]_vars

\* C9: when the predicate of asyncValidation rejects or throws, the promise
\* resolves to false and does not reject, errors is incremented by exactly 1,
\* and the field is marked invalid with the generic message whatever message
\* the caller passed.  A predicate that throws when it is called is caught
\* before the call returns its promise: nothing reaches the caller and no
\* call is left suspended.
C9_RejectionRecordedGeneric ==
    [][ /\ (last'.op = "asyncSettle" /\ last'.outcome = "reject")
           => /\ last'.ret = "false"
              /\ ~last'.threw
              /\ errors' = errors + 1
              /\ invalid'[last'.rule.f]
              /\ html'[last'.rule.f] = GenericMessage
        /\ (last'.op = "asyncValidation" /\ last'.rule.predicate = "throwing")
           => /\ last'.ret = "promise"
              /\ ~last'.threw
              /\ pending' = pending
              /\ errors' = errors + 1
              /\ invalid'[last'.rule.f]
              /\ html'[last'.rule.f] = GenericMessage ]_vars

\* a predicate called with the caller's own message has rejected
C9_Witness ==
    /\ last.op = "asyncSettle"
    /\ last.outcome = "reject"
    /\ last.rule.message # ""
    /\ last.ret = "false"
    /\ html[LastField] = GenericMessage

\* C10: while a predicate of asyncValidation is pending, a synchronous check
\* on another field runs to completion and records its result with the
\* predicate still pending; when the predicate then resolves to false,
\* exactly one error is recorded for its field: errors + 1 and one entry
\* more in errorMessages.
C10_AsyncFalseRecordsOne ==
    [][ /\ ( /\ last'.op \in SyncMethods
             /\ \E call \in pending : call.f # last'.rule.f )
           => /\ pending' = pending
              /\ last'.ret \in {"true", "false"}
              /\ last'.ret = "false" => errors' = errors + 1
        /\ (last'.op = "asyncSettle" /\ last'.outcome = "false")
           => /\ last'.ret = "false"
              /\ errors' = errors + 1
              /\ Len(errorMessages') = Len(errorMessages) + 1 ]_vars

\* the entries a step appended to errorMessages
Appended(old, new) == SubSeq(new, Len(old) + 1, Len(new))

IsHashEntry(e) == \E f \in Fields : e.element = hashId(f)

\* the '#id' entries of a list of entries, in their order
HashEntries(list) == SelectSeq(list, IsHashEntry)

\* what the rules of a list have come to when validateFields returns: the
\* value a synchronous rule returned, false for an asyncValidation whose
\* predicate threw when called (its catch has run), the promise of an
\* asyncValidation still suspended
Results(rules, rets) ==
    [i \in DOMAIN rets |->
        IF rules[i].method = "asyncValidation" /\ rules[i].predicate = "throwing"
        THEN "false" ELSE rets[i]]

\* C11: validateFields invokes every rule of the list exactly once, in list
\* order, whether or not earlier rules failed: each rule gives the result it
\* gives on its own, every failure is counted and recorded in rule order, and
\* throwErrorMessage is called after the last rule, so that the call throws
\* if any rule failed.
C11_BatchRunsEveryRule ==
    [][ last'.op = "validateFields"
        => LET rules == last'.rules
               rets == last'.rets
               done == Results(rules, rets)
               K == Cardinality(Failed(done))
               new == HashEntries(Appended(errorMessages, errorMessages'))
           IN  /\ Len(rets) = Len(rules)
               /\ \A i \in DOMAIN rules : rets[i] = invoke(Cur, rules[i]).ret
               /\ errors' = errors + K
               /\ Len(new) = K
               /\ \A j \in 1..K :
                     new[j].element = hashId(rules[NthFailed(done, j)].f)
               /\ pending \subseteq pending'
               /\ Cardinality(pending' \ pending)
                      = Cardinality(suspended(rules))
               /\ \A i \in suspended(rules) :
                     \E call \in pending' \ pending :
                        /\ call.f = rules[i].f
                        /\ call.message = rules[i].message
               /\ last'.threw <=> (errors' >= 1)
               /\ K >= 1 => last'.threw ]_vars

\* a list of two rules of which the first failed and the second still ran
\* (and failed too) before the call threw
C11_Witness ==
    /\ last.op = "validateFields"
    /\ Len(last.rules) = 2
    /\ last.rets = << "false", "false" >>
    /\ last.rules[1].f # last.rules[2].f
    /\ last.threw
    /\ errors = 2

\* the check methods of the model that take a caller's predicate
PredicateMethods == {"custom", "asyncValidation"}

\* C12: no check method, synchronous or asynchronous, custom with the
\* caller's predicate included, raises an exception to its caller: a failure
\* is recorded and returned as false.  The only operation that throws is
\* throwErrorMessage, called directly or by validateFields, and what is
\* thrown is its one Error.
C12_OnlyThrowErrorMessageThrows ==
    [][ /\ last'.op \in SyncMethods \cup PredicateMethods
           => /\ ~last'.threw
              /\ last'.ret \in {"true", "false", "promise"}
              /\ last'.ret = "false" => errors' = errors + 1
        /\ last'.op = "asyncSettle" => ~last'.threw
        /\ last'.threw
           => /\ last'.op \in {"throwErrorMessage", "validateFields"}
              /\ last'.outcome \in ThrowMessages ]_vars

\* the default message of a rule, its parameters interpolated
DefaultOf(rule) ==
    CASE rule.method = "required" ->
            IF kind[rule.f] \in Choice THEN "Wajib dipilih."
            ELSE IF kind[rule.f] = "file" THEN "Wajib diunggah."
            ELSE "Wajib diisi."
      [] rule.method = "range" ->
            "Nilai harus antara " \o ToString(rule.min) \o " dan "
            \o ToString(rule.max) \o "."
      [] rule.method = "fileSize" ->
            "Ukuran file tidak boleh lebih dari "
            \o (IF rule.max = MB THEN "1.00" ELSE "2.00") \o " MB."
      [] rule.method = "asyncValidation" -> "Input tidak valid."

\* the caller's message if it is given and non-empty, the default otherwise
Resolved(rule) == IF rule.message # "" THEN rule.message ELSE DefaultOf(rule)

\* the message is displayed for field f and is the last one recorded for it
Shows(f, message, shown, list) ==
    /\ shown[f] = message
    /\ list # <<>>
    /\ list[Len(list)] = [element |-> hashId(f), message |-> message]

\* C13, as stated: whenever a check fails (asyncValidation: its predicate
\* resolves to false or rejects), the message recorded in errorMessages and
\* displayed for the field is the caller's message if that is given and
\* non-empty, and the default of the check with its parameters interpolated
\* otherwise.
C13_FailureShowsResolvedMessage ==
    [][ last'.ret = "false"
        => Shows(last'.rule.f, Resolved(last'.rule), html', errorMessages') ]_vars

\* asyncValidation was called with a predicate that threw when called: the
\* catch has run when the call returns its promise
CaughtAtCall ==
    last'.op = "asyncValidation" /\ last'.rule.predicate = "throwing"

\* C13, amended: a check that fails by its predicate's verdict records and
\* displays the caller's message if that is given and non-empty, and the
\* default with the parameters interpolated otherwise; asyncValidation whose
\* predicate rejects or throws records and displays the generic message
\* whatever the caller's message is.
C13_FailureShowsResolvedOrGeneric ==
    [][ /\ last'.ret = "false"
           => Shows(last'.rule.f,
                    IF last'.op = "asyncSettle" /\ last'.outcome = "reject"
                    THEN GenericMessage ELSE Resolved(last'.rule),
                    html', errorMessages')
        /\ CaughtAtCall
           => Shows(last'.rule.f, GenericMessage, html', errorMessages') ]_vars

\* fileSize has failed without a caller's message: the limit is shown in MB
C13_Witness ==
    /\ last.op = "fileSize"
    /\ last.ret = "false"
    /\ last.rule.message = ""
    /\ html[LastField] = "Ukuran file tidak boleh lebih dari 1.00 MB."
    /\ errorMessages[Len(errorMessages)].message = html[LastField]

\* C14: after any failed check (a synchronous one, or asyncValidation whose
\* predicate resolved to false or rejected), the next change of the field's
\* value to a value that passes clears the field's invalid indicator and its
\* inline message.
C14_ChangeClearsFailure ==
    [][ ( /\ last'.op = "change"
          /\ invalid[last'.rule.f]
          /\ html[last'.rule.f] # ""
          /\ val'[last'.rule.f] # val[last'.rule.f]
          /\ val'[last'.rule.f] = GoodValue )
        => /\ ~invalid'[last'.rule.f]
           /\ html'[last'.rule.f] = "" ]_vars

\* C15, as stated: every check that returns true (asyncValidation: whose
\* promise resolves to true) leaves the checked field with no invalid
\* indicator and an empty inline message.
C15_TrueLeavesFieldClear ==
    (last.op \in SyncMethods \cup {"asyncSettle"} /\ last.ret = "true")
    => /\ ~invalid[LastField]
       /\ ~select2Invalid[LastField]
       /\ html[LastField] = ""

\* C15, amended: every synchronous check that returns true leaves the
\* checked field with no invalid indicator and an empty inline message,
\* whatever it carried before; asyncValidation clears the field when it is
\* called (unless its predicate throws when called: the field then carries
\* the generic message), and when its promise resolves to true it leaves
\* the indicators and messages as they are at that moment.
C15_SyncTrueLeavesFieldClear ==
    [][ /\ (last'.op \in SyncMethods /\ last'.ret = "true")
           => /\ ~invalid'[last'.rule.f]
              /\ ~select2Invalid'[last'.rule.f]
              /\ html'[last'.rule.f] = ""
        /\ (last'.op = "asyncValidation" /\ ~CaughtAtCall)
           => /\ ~invalid'[last'.rule.f]
              /\ html'[last'.rule.f] = ""
        /\ CaughtAtCall
           => /\ invalid'[last'.rule.f]
              /\ html'[last'.rule.f] = GenericMessage
        /\ (last'.op = "asyncSettle" /\ last'.ret = "true")
           => UNCHANGED Display ]_vars

\* email has passed on a field that an earlier check had marked invalid
C15_Witness ==
    /\ last.op = "email"
    /\ last.ret = "true"
    /\ EntriesOf(errorMessages, LastField) # {}
    /\ on[LastField] # {}
    /\ ~invalid[LastField]
    /\ html[LastField] = ""

\* field f is empty in the sense of its category: a text-like field whose
\* value is the empty string, a radio/checkbox with nothing checked, a file
\* input with no file
Unfilled(f) ==
    \/ kind[f] \in {"text", "email", "password", "number", "select", "textarea"}
       /\ val[f] = <<>>
    \/ kind[f] \in {"radio", "checkbox"} /\ ~checked[f]
    \/ kind[f] = "file" /\ Len(files[f]) = 0

\* C16: required returns false exactly when the field is text-like with the
\* empty string as value, or a radio/checkbox with nothing checked, or a
\* file input with zero files; in every other case, a field of no recognised
\* category included, it returns true and does not change errors.
C16_RequiredExact ==
    [][ last'.op = "required"
        => IF Unfilled(last'.rule.f)
           THEN last'.ret = "false" /\ errors' = errors + 1
           ELSE last'.ret = "true" /\ errors' = errors ]_vars

\* required has accepted an empty field of no recognised category
C16_Witness ==
    /\ last.op = "required"
    /\ last.ret = "true"
    /\ kind[LastField] = "hidden"
    /\ val[LastField] = <<>>
    /\ errors = 0

DateMethods ==
    {"minDate", "maxDate", "minDatetime", "maxDatetime", "dateBetween",
     "datetimeBetween"}

\* the value of the checked field does not strictly parse in the rule's format
Unparseable(rule) == ~moment(val[rule.f], rule.format).valid

\* the element categories the method of the rule names
NamedBy(rule) ==
    IF rule.method \in {"minDate", "maxDate", "dateBetween"}
    THEN {"text", "date"} ELSE {"text", "datetime-local"}

\* C17, as stated: for minDate, maxDate, minDatetime, maxDatetime,
\* dateBetween and datetimeBetween, a field value that does not strictly
\* parse in the given format makes the check return false and increment
\* errors, whatever the bound arguments are.
C17_UnparseableFails ==
    [][ (last'.op \in DateMethods /\ Unparseable(last'.rule))
        => /\ last'.ret = "false"
           /\ errors' = errors + 1 ]_vars

\* C17, amended: on a text or date input (minDate, maxDate, dateBetween) or
\* a text or datetime-local input (minDatetime, maxDatetime,
\* datetimeBetween), a field value that does not strictly parse in the given
\* format makes the check return false and increment errors, whatever the
\* bound arguments are; on an element of any other category the check
\* returns true and leaves errors alone, whatever the value.
C17_UnparseableFailsInCategory ==
    [][ last'.op \in DateMethods
        => /\ ( /\ Unparseable(last'.rule)
                /\ kind[last'.rule.f] \in NamedBy(last'.rule) )
              => /\ last'.ret = "false"
                 /\ errors' = errors + 1
           /\ kind[last'.rule.f] \notin NamedBy(last'.rule)
              => /\ last'.ret = "true"
                 /\ errors' = errors ]_vars

\* dateBetween has rejected a day that does not exist, given a bound that is
\* no date either
C17_Witness ==
    /\ last.op = "dateBetween"
    /\ last.ret = "false"
    /\ last.rule.start = BadBound
    /\ kind[LastField] = "text"
    /\ val[LastField] = << "2", "0", "2", "3", "-", "0", "2", "-", "3", "0" >>
    /\ html[LastField] = "Tanggal harus antara Invalid date dan 2023-12-31."

\* the place of the last entry recorded for field f
LastEntryOf(list, f) ==
    CHOOSE i \in EntriesOf(list, f) : \A k \in EntriesOf(list, f) : k <= i

\* a synchronous check on another field has just failed while the call of
\* asyncValidation that now settles was pending, and the call fails too
SettlesAfterLaterFailure ==
    /\ last.op \in SyncMethods
    /\ last.ret = "false"
    /\ last'.op = "asyncSettle"
    /\ last'.ret = "false"
    /\ last.rule.f # last'.rule.f
    /\ \E call \in pending : call.f = last'.rule.f

\* no step modifies or removes an entry of errorMessages
EntriesKept ==
    /\ Len(errorMessages') >= Len(errorMessages)
    /\ SubSeq(errorMessages', 1, Len(errorMessages)) = errorMessages

\* C18, as stated: the entries of errorMessages appear in the order in which
\* the failing checks were invoked, also when a synchronous check is invoked
\* (and fails) while an earlier-invoked asyncValidation is pending: the
\* entry of the asyncValidation then comes before the entry of the
\* synchronous check; existing entries are never modified.
C18_EntriesInInvocationOrder ==
    [][ /\ EntriesKept
        /\ SettlesAfterLaterFailure
           => LastEntryOf(errorMessages', last'.rule.f)
                  < LastEntryOf(errorMessages', last.rule.f) ]_vars

\* C18, amended: existing entries are never modified or removed, and every
\* failure is appended at the end of errorMessages at the moment it is
\* recorded: a synchronous check when it is invoked, asyncValidation when
\* its predicate settles (when it is invoked, if its predicate throws when
\* called).  So the entry of a synchronous check that failed while an
\* earlier-invoked asyncValidation was pending comes before the entry of
\* that asyncValidation.
C18_EntriesInRecordingOrder ==
    [][ /\ EntriesKept
        /\ (last'.ret = "false" \/ CaughtAtCall)
           => /\ Len(errorMessages') > Len(errorMessages)
              /\ LastEntryOf(errorMessages', last'.rule.f)
                    = Len(errorMessages')
        /\ SettlesAfterLaterFailure
           => LastEntryOf(errorMessages', last.rule.f)
                  < LastEntryOf(errorMessages', last'.rule.f) ]_vars

\* the predicate of a call made first has resolved to false after required
\* failed on the other field: the entry of "b" precedes the entry of "a"
C18_Witness ==
    /\ last.op = "asyncSettle"
    /\ last.ret = "false"
    /\ LastField = "a"
    /\ ncalls = 2
    /\ Len(errorMessages) = 2
    /\ errorMessages[1].element = hashId("b")
    /\ errorMessages[2].element = hashId("a")

\* a Validator just constructed, on a page that shows no error
Fresh ==
    [ errors |-> 0, errorMessages |-> <<>>,
      invalid |-> [f \in Fields |-> FALSE],
      select2Invalid |-> [f \in Fields |-> FALSE],
      html |-> [f \in Fields |-> ""], on |-> [f \in Fields |-> {}],
      pending |-> {} ]

\* C19: the boolean a synchronous check returns depends only on the field's
\* category, its current value and the rule's parameters: the Validator of
\* the model, whatever errors and errorMessages it has accumulated and
\* whatever the page displays, returns what a Validator just constructed
\* returns for the same check on the same field.
C19_ResultIndependentOfState ==
    [][ last'.op \in SyncMethods
        => last'.ret = invoke(Fresh, last'.rule).ret ]_vars

\* numeric has rejected a value on a Validator that had recorded a failure
\* already and whose field carried an error
C19_Witness ==
    /\ last.op = "numeric"
    /\ last.ret = "false"
    /\ errors = 2
    /\ Len(errorMessages) >= 2
    /\ val[LastField] = << "a", "b", "c" >>

\* C20: for every valid date string d in YYYY-MM-DD form with year
\* 1900..2099, SAT.Parse.ToDate(SAT.Format.ToDate(d)) equals d.
C20_FormatParseRoundTrip ==
    [][ (last.op = "Format.ToDate" /\ last'.op = "Parse.ToDate")
        => /\ ~last'.threw
           /\ last'.rets = last.rule.start ]_vars


\* C21: HTTP.fetch rejects with an Error object both when the request
\* itself fails (the error callback fires) and when the server returns an
\* error response (status 'failed' or 'error'); in every other case it
\* resolves with the server's response, unchanged.
C21_FetchRejectsWithError ==
    [][ last'.op = "fetch settled"
        => IF \/ last'.response.type = "jqXHR"
              \/ last'.response.status \in {"failed", "error"}
           THEN /\ last'.settled = "rejected"
                /\ last'.value.type = "Error"
           ELSE /\ last'.settled = "resolved"
                /\ last'.value = last'.response ]_vars

\* the message checkErrorResponses is to throw with
MessageFor(response, errorMessage) ==
    IF errorMessage # "" THEN errorMessage
    ELSE IF response.exception /\ response.message # "" THEN response.message
    ELSE "An unknown error occurred."

\* C22: HTTP.checkErrorResponses throws exactly when response.status is
\* 'failed' or 'error'; the Error's message is the errorMessage argument
\* when non-empty, else response.exception.message when present and
\* non-empty, else 'An unknown error occurred.'; for any other status it
\* returns, and nothing has changed.
C22_CheckErrorResponsesThrows ==
    [][ last'.op = "checkErrorResponses"
        => /\ IF last'.response.status \in {"failed", "error"}
              THEN /\ last'.settled = "threw"
                   /\ last'.value.type = "Error"
                   /\ last'.value.message
                        = MessageFor(last'.response, last'.errorMessage)
              ELSE /\ last'.settled = "returned"
                   /\ last'.value.type = "undefined"
           /\ UNCHANGED << PageAndValidator, pending, ncalls >> ]_vars

C22_Witness ==
    /\ last.op = "checkErrorResponses"
    /\ last.settled = "threw"
    /\ last.errorMessage = ""
    /\ last.response.status = "failed"
    /\ last.response.exception
    /\ last.value.message = "SQLSTATE[23000]"


\* the place of the first "@" of a string, 0 when it has none
FirstAt(str) ==
    IF \E i \in DOMAIN str : str[i] = "@"
    THEN CHOOSE i \in DOMAIN str :
             str[i] = "@" /\ \A j \in 1..(i - 1) : str[j] # "@"
    ELSE 0

\* an address: one "@", with a non-empty local part before it
IsAddress(str) ==
    /\ Cardinality({i \in DOMAIN str : str[i] = "@"}) = 1
    /\ FirstAt(str) > 1

\* C23: for every address with a non-empty local part, AnonymizeText keeps
\* the first 3 characters of the local part (1 when it has fewer than 4),
\* puts one asterisk for each remaining character of the local part, and
\* leaves the "@" and the domain as they are; the output is as long as the
\* input.
C23_AnonymizeKeepsLength ==
    (last.op = "Util.AnonymizeText" /\ IsAddress(last.rule.start))
    => LET address == last.rule.start
           n == FirstAt(address) - 1
           visible == IF n < 4 THEN 1 ELSE 3
       IN  /\ ~last.threw
           /\ Len(last.rets) = Len(address)
           /\ \A i \in DOMAIN address :
                 last.rets[i] = IF i <= visible \/ i > n THEN address[i] ELSE "*"

C23_Witness ==
    /\ last.op = "Util.AnonymizeText"
    /\ last.rule.start = << "a", "b", "a", "b", "@", "a" >>
    /\ last.rets = << "a", "b", "a", "*", "@", "a" >>

\* n copies of the symbol c
Symbols(c, n) == [i \in 1..n |-> c]

\* the standard numeral of one decimal digit d, written with the symbols
\* of one, five and ten of its place
DigitNumeral(one, five, ten, d) ==
    CASE d <= 3 -> Symbols(one, d)
      [] d = 4 -> << one, five >>
      [] d \in 5..8 -> << five >> \o Symbols(one, d - 5)
      [] OTHER -> << one, ten >>

\* the standard Roman numeral of n in 1..3999
StandardNumeral(n) ==
    Symbols("M", n \div 1000)
    \o DigitNumeral("C", "D", "M", (n \div 100) % 10)
    \o DigitNumeral("X", "L", "C", (n \div 10) % 10)
    \o DigitNumeral("I", "V", "X", n % 10)

SymbolValue(c) ==
    CASE c = "M" -> 1000 [] c = "D" -> 500 [] c = "C" -> 100 [] c = "L" -> 50
      [] c = "X" -> 10 [] c = "V" -> 5 [] c = "I" -> 1 [] OTHER -> 0

SubtractivePairs ==
    { << "C", "M" >>, << "C", "D" >>, << "X", "C" >>, << "X", "L" >>,
      << "I", "X" >>, << "I", "V" >> }

\* the values of the symbols of a numeral, a subtractive pair being one
RECURSIVE SymbolValues(_)
SymbolValues(s) ==
    IF s = << >> THEN << >>
    ELSE IF Len(s) >= 2 /\ SubSeq(s, 1, 2) \in SubtractivePairs
    THEN << SymbolValue(s[2]) - SymbolValue(s[1]) >>
         \o SymbolValues(SubSeq(s, 3, Len(s)))
    ELSE << SymbolValue(s[1]) >> \o SymbolValues(Tail(s))

RECURSIVE Sum(_)
Sum(s) == IF s = << >> THEN 0 ELSE Head(s) + Sum(Tail(s))

NonIncreasing(s) == \A i \in 1..(Len(s) - 1) : s[i] >= s[i + 1]

\* C24: for every integer n in 1..3999, ToRoman(n) is the standard Roman
\* numeral of n: its symbol values (subtractive pairs counted as one) sum
\* to n and are in non-increasing order; for n <= 0 or NaN the result is
\* the empty string.
C24_ToRomanStandard ==
    last.op = "Format.ToRoman"
    => IF last.rule.other # "NaN" /\ last.rule.min \in 1..3999
       THEN /\ last.rets = StandardNumeral(last.rule.min)
            /\ Sum(SymbolValues(last.rets)) = last.rule.min
            /\ NonIncreasing(SymbolValues(last.rets))
       ELSE last.rets = << >>

C24_Witness ==
    /\ last.op = "Format.ToRoman"
    /\ last.rule.min = 1994
    /\ last.rets = << "M", "C", "M", "X", "C", "I", "V" >>


\* whether a value fails the predicate of a rule of required, maxLength or
\* email, on a text or email input
FailsOn(rule, value) ==
    CASE rule.method = "required" -> value = << >>
      [] rule.method = "maxLength" -> Len(value) > rule.max
      [] rule.method = "email" -> ~emailRegex(value)
      [] OTHER -> FALSE

\* C25: the listener attached after a failed check re-evaluates the
\* predicate on a value change: when the field's new value still fails the
\* predicate, the field's invalid indicator and message stay displayed.
C25_ListenerRechecks ==
    [][ ( /\ last.op \in {"required", "maxLength", "email"}
          /\ last.ret = "false"
          /\ last'.op = "change"
          /\ last'.rule.f = last.rule.f
          /\ val'[last.rule.f] # val[last.rule.f]
          /\ FailsOn(last.rule, val'[last.rule.f]) )
        => /\ invalid'[last.rule.f]
           /\ html'[last.rule.f] # "" ]_vars


\* a field displayed invalid: is-invalid set and a message shown
DisplayedInvalid(f) == invalid[f] /\ html[f] # ""

\* C26: within one validation pass with no change of a field's value, every
\* field for which some check returned false is still displayed invalid
\* when throwErrorMessage is called, also when a later check of the same
\* field passed; hence when throwErrorMessage throws (after a pass that
\* started with no errors), at least one field is displayed invalid.
C26_FailedFieldsStayInvalid ==
    [][ last'.op = "validateFields"
        => /\ \A i \in DOMAIN last'.rets :
                 last'.rets[i] = "false"
                 => /\ invalid'[last'.rules[i].f]
                    /\ html'[last'.rules[i].f] # ""
           /\ (last'.threw /\ errors = 0)
              => \E f \in Fields : DisplayedInvalid(f)' ]_vars


\* s is a prefix of t
IsPrefix(s, t) == Len(s) <= Len(t) /\ SubSeq(t, 1, Len(s)) = s

\* throwErrorMessage was called, by the caller or by validateFields
ThrowCalled == last.op \in {"throwErrorMessage", "validateFields"}

\* C27: on one instance errors never decreases and errorMessages only grows
\* at its end, whatever the operation (a check, a listener firing,
\* throwErrorMessage, validateFields); so once throwErrorMessage has
\* thrown, every later call of it throws too, also after every field was
\* corrected and checked again with success.
C27_ErrorsNeverShrink ==
    /\ [][ /\ errors' >= errors
           /\ IsPrefix(errorMessages, errorMessages') ]_vars
    /\ []( (ThrowCalled /\ last.threw) => [](ThrowCalled => last.threw) )

C27_Witness ==
    /\ last.op = "throwErrorMessage"
    /\ last.threw
    /\ ncalls = 2
    /\ errors = 1
    /\ errorMessages = << [element |-> "#a", message |-> "Wajib diisi."] >>
    /\ kind["a"] = "text"
    /\ val["a"] # << >>
    /\ \A f \in Fields : ~invalid[f] /\ html[f] = ""


\* the rules of a list that returned false
FalseRules(rets) == {i \in DOMAIN rets : rets[i] = "false"}

\* C28, as stated: validateFields does not wait for an asyncValidation rule
\* of its list: when it has called throwErrorMessage the rule's predicate is
\* still pending, so only the synchronous failures are counted, a list whose
\* only failing rule is the asynchronous one returns without throwing, and
\* the failure is added to errors afterwards, when the predicate settles.
C28_BatchDoesNotAwait ==
    [][ /\ (last'.op = "validateFields" /\ asyncRules(last'.rules) # {})
           => /\ \A i \in asyncRules(last'.rules) :
                    /\ last'.rets[i] = "promise"
                    /\ \E call \in pending' \ pending :
                          /\ call.f = last'.rules[i].f
                          /\ call.message = last'.rules[i].message
              /\ errors' = errors + Cardinality(FalseRules(last'.rets))
              /\ last'.threw <=> (errors' >= 1)
              /\ (errors = 0 /\ FalseRules(last'.rets) = {}) => ~last'.threw
        /\ (last'.op = "asyncSettle" /\ last'.outcome # "true")
           => errors' = errors + 1 ]_vars

\* the asyncValidation rules of a list whose predicate threw when called
threwWhenCalled(validations) ==
    asyncRules(validations) \ suspended(validations)

\* C28, amended: validateFields does not wait for an asyncValidation rule
\* whose predicate returns (a promise or a plain value): when it has called
\* throwErrorMessage the call is still suspended, so a list whose only
\* failing rules are such rules returns without throwing, and their failures
\* are added to errors afterwards, when the awaited value settles.  A rule
\* whose predicate throws when it is called is counted at once, with the
\* synchronous failures, and makes validateFields throw.
C28_BatchDoesNotAwaitReturning ==
    [][ /\ (last'.op = "validateFields" /\ asyncRules(last'.rules) # {})
           => /\ \A i \in asyncRules(last'.rules) : last'.rets[i] = "promise"
              /\ \A i \in suspended(last'.rules) :
                    \E call \in pending' \ pending :
                          /\ call.f = last'.rules[i].f
                          /\ call.message = last'.rules[i].message
              /\ Cardinality(pending' \ pending)
                     = Cardinality(suspended(last'.rules))
              /\ errors' = errors + Cardinality(FalseRules(last'.rets))
                                  + Cardinality(threwWhenCalled(last'.rules))
              /\ last'.threw <=> (errors' >= 1)
              /\ ( /\ errors = 0
                   /\ FalseRules(last'.rets) = {}
                   /\ threwWhenCalled(last'.rules) = {} ) => ~last'.threw
              /\ threwWhenCalled(last'.rules) # {} => last'.threw
        /\ (last'.op = "asyncSettle" /\ last'.outcome # "true")
           => errors' = errors + 1 ]_vars

C28_Witness ==
    /\ last.op = "validateFields"
    /\ ~last.threw
    /\ errors = 0
    /\ Len(last.rules) = 2
    /\ last.rules[1].method = "required"
    /\ last.rules[2].method = "asyncValidation"
    /\ last.rules[2].predicate = "returning"
    /\ last.rets = << "true", "promise" >>
    /\ \E call \in pending : call.f = last.rules[2].f


\* the element categories a check names
NamedCategories(method) ==
    CASE method \in {"alphabetic", "alphanumeric"} -> {"text", "textarea"}
      [] method = "numeric" -> {"text", "number", "textarea"}
      [] method = "range" -> {"number", "text"}
      [] method \in {"minLength", "maxLength"} ->
            {"text", "email", "password", "textarea"}
      [] method = "pattern" -> {"text", "textarea"}
      [] method \in {"fileType", "fileExtension"} -> {"file"}
      [] method = "date" -> {"text", "date"}
      [] method = "datetime" -> {"text", "datetime-local"}
      [] method = "time" -> {"text", "time"}
      [] method = "url" -> {"text", "url"}
      [] method = "phoneNumber" -> {"text", "tel"}
      [] OTHER -> Kinds \cup ScopeKinds

\* the type-restricted checks
TypeRestricted ==
    {"alphabetic", "alphanumeric", "numeric", "range", "minLength",
     "maxLength", "pattern", "fileType", "fileExtension", "date", "datetime",
     "time", "url", "phoneNumber"}

\* C29: a type-restricted synchronous check applied to a field whose
\* element category is not one the check names returns true and leaves
\* errors and errorMessages as they were.
C29_OutOfCategoryPasses ==
    [][ ( /\ last'.op \in TypeRestricted
          /\ kind[last'.rule.f] \notin NamedCategories(last'.op) )
        => /\ last'.ret = "true"
           /\ errors' = errors
           /\ errorMessages' = errorMessages ]_vars


\* C30: when asyncValidation marks a field invalid because its predicate
\* resolved to false, the field's value at that moment is the value that
\* was passed to the predicate: a change of value made while the predicate
\* was pending is never followed by the field being marked invalid for the
\* value it had before.
C30_NoStaleAsyncFailure ==
    [][ (last'.op = "asyncSettle" /\ last'.outcome = "false")
        => \A call \in pending \ pending' :
              /\ invalid'[call.f]
              /\ val'[call.f] = call.value ]_vars

=============================================================================
